---------------------------- MODULE Spec2Model ----------------------------
(***************************************************************************)
(* A model of the EazZy-Shop scraper core (src/scraper.py).                *)
(*                                                                         *)
(* Text is modelled as a sequence of one-character strings, so that the    *)
(* regular-expression steps of the parsers (strip, search, fold) are       *)
(* computed on characters as the code computes them.  A price is a number  *)
(* of hundredths (the code accepts at most two decimals), None is -1.      *)
(***************************************************************************)
EXTENDS Integers, Sequences, FiniteSets, TLC

VARIABLES
    text,        \* _price: the argument
    pricePc,     \* "idle", "called" (priceOut is set), "again" (priceAgain is set)
    priceOut,    \* _price(text)
    priceAgain   \* _price(str(priceOut))

VARIABLES
    pairs,       \* _normalize_specs: the (key, value) pairs given
    specPc,      \* "idle", "done" (specOut is set)
    specOut      \* the dict returned, as its (key, value) items in insertion order

VARIABLES
    html,        \* _blocked: the body given
    blockedPc,   \* "idle", "done" (blockedOut is set)
    blockedOut   \* _blocked(html)

VARIABLES
    apiKey,      \* whether SCRAPER_API_KEY is a non-empty string
    hasCs,       \* _HAS_CS: whether cloudscraper could be imported
    netlog       \* the fetch strategies that reached the HTTP client, oldest first

VARIABLES
    rsUrl,       \* resolve_url: the url given
    rsFast,      \* resolve_url: the fast flag given
    rsPc,        \* "query", "direct", "proxy", "returned", "raised"
    rsTry,       \* index of the header profile the direct loop is at
    rsOut        \* the value returned

VARIABLES
    scPc,        \* scrape_amazon / scrape_flipkart: where the call is
    scUrl,       \* the url the running pass was given
    scShort,     \* is_short_fk of the running pass
    scResp,      \* resp: the page of the response held, NoResp for None
    scTry,       \* _direct_fetch: the GET it is at
    scPass,      \* passes of scrape_flipkart started
    scResult,    \* scrape_amazon: result, what _parse_amazon_structured gave
    scOut        \* what the scrape handed back

VARIABLES
    raceW,       \* the race: per worker "idle", "running", or its result
    raceOrder,   \* the workers in the order they completed
    raceSnap,    \* futures found finished when as_completed was entered,
                 \* None before that
    raceYield,   \* the workers in the order as_completed yields them
    racePos,     \* futures the as_completed loop has taken
    raceRet      \* "pending", or what the race decided to return

VARIABLES
    anRaw,       \* analyze_url: raw_url
    anPc,        \* "start", "resolving", "scraping", "returned", "raised"
    anUrl,       \* url
    anSource,    \* source
    anResult     \* the dict returned

VARIABLES
    cmpResults,  \* the comparison step: the results dict given, as its
                 \* (platform, record) items in insertion order
    cmpPc,       \* "idle", "done" (cmpOut is set)
    cmpOut       \* the comparison block built

VARIABLES
    curPrice,    \* the prediction step: current_price, None without one
    predPc,      \* "off", "idle", "done" (predOut is set)
    predOut      \* the prediction block built

VARIABLES
    dataRows,        \* data.csv: its products as the ranking orders them
    dataExists,      \* data.csv exists
    dataMtime,       \* os.path.getmtime of data.csv
    _TRENDING_CACHE, \* app.py's module-level cache of the trending deals
    tdClock,         \* datetime.now(), as a count of the computations done
    tdPc,            \* "off", "idle", "done" (a call has returned tdOut)
    tdLimit,         \* the limit of the last call
    tdOut            \* what the last call returned: deals and generated_at

VARIABLES
    usersFile,   \* users.csv: its rows, or Truncated while it is being written
    suBody,      \* per signup request: the JSON body posted
    suPc,        \* per signup request: "off", "start", "read", "open", "write", "done"
    suDf,        \* per signup request: save_user's local df
    suResp       \* per signup request: the response, NoResponse before it

priceVars == <<text, pricePc, priceOut, priceAgain>>
specVars == <<pairs, specPc, specOut>>
blockedVars == <<html, blockedPc, blockedOut>>
envVars == <<apiKey, hasCs, netlog>>
resolveVars == <<rsUrl, rsFast, rsPc, rsTry, rsOut>>
scrapeVars == <<scPc, scUrl, scShort, scResp, scTry, scPass, scResult, scOut>>
raceVars == <<raceW, raceOrder, raceSnap, raceYield, racePos, raceRet>>
analyzeVars == <<anRaw, anPc, anUrl, anSource, anResult>>
compareVars == <<cmpResults, cmpPc, cmpOut>>
predictVars == <<curPrice, predPc, predOut>>
signupVars == <<usersFile, suBody, suPc, suDf, suResp>>
trendingVars == <<dataRows, dataExists, dataMtime, _TRENDING_CACHE, tdClock,
                  tdPc, tdLimit, tdOut>>
vars == <<priceVars, specVars, blockedVars, envVars, resolveVars,
          scrapeVars, raceVars, analyzeVars, compareVars, predictVars,
          trendingVars, signupVars>>

\* ------------------------------------------------------------------ bounds
\* passes of scrape_flipkart followed (the code sets no limit)
MaxPasses == 2
\* longest generated price text
MaxTextLen == 5
\* most sample pairs put next to the filler pairs of a _normalize_specs input
MaxPairs == 2
\* how far from the size threshold the generated body lengths go, either way
MaxLenDelta == 1

\* ------------------------------------------------------- characters, text
None == -1

\* the parts of the state a specification does not use stay as they are here
PriceIdle ==
    /\ text = <<>>
    /\ pricePc = "off"
    /\ priceOut = None
    /\ priceAgain = None

SpecIdle ==
    /\ pairs = <<>>
    /\ specPc = "off"
    /\ specOut = <<>>

BlockedIdle ==
    /\ html = <<>>
    /\ blockedPc = "off"
    /\ blockedOut = FALSE

ResolveIdle ==
    /\ rsUrl = <<>>
    /\ rsFast = FALSE
    /\ rsPc = "off"
    /\ rsTry = 0
    /\ rsOut = <<>>

\* every part of the state but those named in used is idle
NoRecord == [platform |-> "None"]

\* what a scrape hands back: a record or NoRecord, or an exception
Returned(rec) == [raised |-> FALSE, record |-> rec]
Raised == [raised |-> TRUE, record |-> NoRecord]

ScrapeIdle ==
    /\ scPc = "off"
    /\ scUrl = <<>>
    /\ scShort = FALSE
    /\ scResp = "None"
    /\ scTry = 0
    /\ scPass = 0
    /\ scResult = NoRecord
    /\ scOut = Returned(NoRecord)

RaceIdle ==
    /\ raceW = <<"idle", "idle">>
    /\ raceOrder = <<>>
    /\ raceSnap = None
    /\ raceYield = <<>>
    /\ racePos = 0
    /\ raceRet = "pending"

AnalyzeIdle ==
    /\ anRaw = <<>>
    /\ anPc = "off"
    /\ anUrl = <<>>
    /\ anSource = "None"
    /\ anResult = [success |-> FALSE]

CompareIdle ==
    /\ cmpResults = <<>>
    /\ cmpPc = "off"
    /\ cmpOut = [both_found |-> FALSE]

PredictIdle ==
    /\ curPrice = None
    /\ predPc = "off"
    /\ predOut = [recommendation |-> "None", best_time_days |-> None]

\* _TRENDING_CACHE as the module defines it
EmptyCache == [mtime |-> None, deals |-> <<>>, generated_at |-> None]

TrendingIdle ==
    /\ dataRows = <<>>
    /\ dataExists = FALSE
    /\ dataMtime = 0
    /\ _TRENDING_CACHE = EmptyCache
    /\ tdClock = 0
    /\ tdPc = "off"
    /\ tdLimit = 0
    /\ tdOut = [deals |-> <<>>, generated_at |-> None]

SignupIdle ==
    /\ usersFile = <<>>
    /\ suBody = <<>>
    /\ suPc = <<>>
    /\ suDf = <<>>
    /\ suResp = <<>>

IdleExcept(used) ==
    /\ "price" \in used \/ PriceIdle
    /\ "specs" \in used \/ SpecIdle
    /\ "blocked" \in used \/ BlockedIdle
    /\ "env" \in used \/ (apiKey = TRUE /\ hasCs = TRUE /\ netlog = <<>>)
    /\ "resolve" \in used \/ ResolveIdle
    /\ "scrape" \in used \/ (ScrapeIdle /\ RaceIdle)
    /\ "analyze" \in used \/ AnalyzeIdle
    /\ "compare" \in used \/ CompareIdle
    /\ "predict" \in used \/ PredictIdle
    /\ "trending" \in used \/ TrendingIdle
    /\ "signup" \in used \/ SignupIdle

\* the variables a specification leaves alone
pipelineVars == <<envVars, resolveVars, scrapeVars, raceVars, analyzeVars>>
stepVars == <<compareVars, predictVars, trendingVars, signupVars>>
notPrice == <<specVars, blockedVars, pipelineVars, stepVars>>
notSpecs == <<priceVars, blockedVars, pipelineVars, stepVars>>
notBlocked == <<priceVars, specVars, pipelineVars, stepVars>>
notPipeline == <<priceVars, specVars, blockedVars, stepVars>>
notCompare == <<priceVars, specVars, blockedVars, pipelineVars, predictVars,
                trendingVars, signupVars>>
notPredict == <<priceVars, specVars, blockedVars, pipelineVars, compareVars,
                trendingVars, signupVars>>
notTrending == <<priceVars, specVars, blockedVars, pipelineVars, compareVars,
                 predictVars, signupVars>>
notSignup == <<priceVars, specVars, blockedVars, pipelineVars, compareVars,
               predictVars, trendingVars>>
notResolve == <<notPipeline, scrapeVars, raceVars, analyzeVars>>

Digits == <<"0", "1", "2", "3", "4", "5", "6", "7", "8", "9">>
DigitSet == {Digits[i] : i \in 1..10}
DigitVal(c) == (CHOOSE i \in 1..10 : Digits[i] = c) - 1

LowerLetters ==
    <<"a","b","c","d","e","f","g","h","i","j","k","l","m",
      "n","o","p","q","r","s","t","u","v","w","x","y","z">>
UpperLetters ==
    <<"A","B","C","D","E","F","G","H","I","J","K","L","M",
      "N","O","P","Q","R","S","T","U","V","W","X","Y","Z">>
UpperSet == {UpperLetters[i] : i \in 1..26}
LowerSet == {LowerLetters[i] : i \in 1..26}

\* str.lower() on one character
LowerChar(c) ==
    IF c \in UpperSet
    THEN LowerLetters[CHOOSE i \in 1..26 : UpperLetters[i] = c]
    ELSE c

\* str.lower()
Lower(s) == [i \in 1..Len(s) |-> LowerChar(s[i])]

\* characters matched by \s
Whitespace == {" ", "NBSP", "TAB", "NL"}

\* whether pat occurs in s at position i
MatchAt(s, i, pat) ==
    /\ i >= 1
    /\ i + Len(pat) - 1 <= Len(s)
    /\ \A j \in 1..Len(pat) : s[i + j - 1] = pat[j]

\* Python's  pat in s
Contains(s, pat) == \E i \in 1..(Len(s) + 1) : MatchAt(s, i, pat)

\* str.strip() for a set of characters
RECURSIVE LStrip(_, _)
LStrip(s, cs) ==
    IF s # <<>> /\ Head(s) \in cs THEN LStrip(Tail(s), cs) ELSE s

RECURSIVE RStrip(_, _)
RStrip(s, cs) ==
    IF s # <<>> /\ s[Len(s)] \in cs
    THEN RStrip(SubSeq(s, 1, Len(s) - 1), cs)
    ELSE s

Strip(s, cs) == RStrip(LStrip(s, cs), cs)

\* ---------------------------------------------------------------- _price
\* re.sub(r'[,\xa0₹\$£€]', '', text)
PriceStripChars == {",", "NBSP", "RUPEE", "$", "POUND", "EURO"}
StripCurrencyChars(t) == SelectSeq(t, LAMBDA c : c \notin PriceStripChars)

\* the alternatives of (?i)(INR|MRP|RS\.?|USD), in the order the regex tries them
CurrencyTokens ==
    << <<"i","n","r">>, <<"m","r","p">>, <<"r","s",".">>, <<"r","s">>, <<"u","s","d">> >>

\* length of the currency token matched at position i of t, 0 when none matches
TokenLenAt(t, i) ==
    LET low == Lower(t)
        hits == {k \in 1..Len(CurrencyTokens) : MatchAt(low, i, CurrencyTokens[k])}
    IN  IF hits = {} THEN 0
        ELSE Len(CurrencyTokens[CHOOSE k \in hits : \A m \in hits : k <= m])

\* re.sub(r'(?i)(INR|MRP|RS\.?|USD)', '', t): leftmost matches, left to right
RECURSIVE StripTokensFrom(_, _)
StripTokensFrom(t, i) ==
    IF i > Len(t) THEN <<>>
    ELSE LET n == TokenLenAt(t, i)
         IN  IF n > 0 THEN StripTokensFrom(t, i + n)
             ELSE <<t[i]>> \o StripTokensFrom(t, i + 1)

StripCurrencyTokens(t) == StripTokensFrom(t, 1)

IsDigitAt(t, i) == i >= 1 /\ i <= Len(t) /\ t[i] \in DigitSet

\* number of consecutive digits of t from position i, at most cap
RECURSIVE DigitRun(_, _, _)
DigitRun(t, i, cap) ==
    IF cap = 0 \/ ~IsDigitAt(t, i) THEN 0 ELSE 1 + DigitRun(t, i + 1, cap - 1)

\* int() of the digits t[i..i+n-1]
RECURSIVE DigitsValue(_, _, _)
DigitsValue(t, i, n) ==
    IF n = 0 THEN 0
    ELSE DigitsValue(t, i, n - 1) * 10 + DigitVal(t[i + n - 1])

\* most integer digits \d{2,7} takes
PriceMaxDigits == 7
\* fewest integer digits \d{2,7} takes
PriceMinDigits == 2

\* re.search(r'(\d{2,7}(?:\.\d{1,2})?)', t): the start of the leftmost match, 0 if none
NumberStart(t) ==
    LET starts == {i \in 1..Len(t) : DigitRun(t, i, PriceMinDigits) = PriceMinDigits}
    IN  IF starts = {} THEN 0 ELSE CHOOSE i \in starts : \A j \in starts : i <= j

\* float(m.group(1)) in hundredths: the greedy integer digits, then the optional
\* group of a point and one or two digits
FractionValue(t, dot, nfrac) ==
    IF nfrac = 0 THEN 0
    ELSE IF nfrac = 1 THEN DigitVal(t[dot + 1]) * 10
    ELSE DigitVal(t[dot + 1]) * 10 + DigitVal(t[dot + 2])

Fraction(t, dot) ==
    FractionValue(t, dot,
                  IF dot <= Len(t) /\ t[dot] = "." THEN DigitRun(t, dot + 1, 2) ELSE 0)

NumberValue(t, i, n) == DigitsValue(t, i, n) * 100 + Fraction(t, i + n)

MatchedValue(t, i) == NumberValue(t, i, DigitRun(t, i, PriceMaxDigits))

\* 10, in hundredths
PriceLow == 1000
\* 10_000_000, in hundredths
PriceHigh == 1000000000

\* if 10 < v < 10_000_000
SaneMutantInclusive(v) == PriceLow <= v /\ v < PriceHigh
Sane(v) == PriceLow < v /\ v < PriceHigh

\* the second alternative regex \d{2,7}(?:\.\d{2})? of a mutated _price
PriceNormalizedMutant(t) ==
    LET s == Strip(StripCurrencyTokens(StripCurrencyChars(t)), Whitespace)
        i == NumberStart(s)
        n == DigitRun(s, i, PriceMaxDigits)
        dot == i + n
        two == dot <= Len(s) /\ s[dot] = "." /\ DigitRun(s, dot + 1, 2) = 2
        v == DigitsValue(s, i, n) * 100
               + (IF two THEN DigitVal(s[dot + 1]) * 10 + DigitVal(s[dot + 2]) ELSE 0)
    IN  IF i = 0 THEN None ELSE IF Sane(v) THEN v ELSE None

\* a text argument that is None
NoText == <<"<None>">>

\* _price with the optional group requiring both decimals, \d{2,7}(?:\.\d{2})?
PriceTwoDecimalsMutant(t) == IF t = NoText THEN None ELSE PriceNormalizedMutant(t)

\* if 10 < v < 10_000_000: return v  ...  return None
SaneOrNone(v) == IF Sane(v) THEN v ELSE None

\* _price from the match on: i is the start of the match in s, 0 without one
PriceAt(s, i) == IF i = 0 THEN None ELSE SaneOrNone(MatchedValue(s, i))

\* _price from the search on, s being the text the substitutions left
PriceMatch(s) == PriceAt(s, NumberStart(s))

\* _price(text) for a text that is not None
PriceOfText(t) ==
    PriceMatch(Strip(StripCurrencyTokens(StripCurrencyChars(t)), Whitespace))

_price(t) == IF t = NoText THEN None ELSE PriceOfText(t)

\* str(v) of a float v given in hundredths: repr keeps one decimal at least and
\* no trailing zero after it ("11.0", "12.5", "10.01")
RECURSIVE NatToText(_)
NatToText(n) ==
    IF n < 10 THEN <<Digits[n + 1]>>
    ELSE NatToText(n \div 10) \o <<Digits[(n % 10) + 1]>>

FloatToText(v) ==
    LET whole == v \div 100
        frac  == v % 100
    IN  NatToText(whole) \o <<".">> \o
        (IF frac % 10 = 0 THEN <<Digits[(frac \div 10) + 1]>>
         ELSE <<Digits[(frac \div 10) + 1], Digits[(frac % 10) + 1]>>)

\* ------------------------------------------------- _price as a state machine
\* every text over alphabet cs of length 0..n
TextsUpTo(cs, n) == UNION {[1..k -> cs] : k \in 0..n}

PriceAlphabet == {"0", "1", "5", ".", ","}

PriceSamples ==
    { NoText,
      <<"RUPEE", "1", ",", "2", "9", "9", ".", "0", "0">>,
      <<"R", "s", ".", " ", "9", "9", "9">>,
      <<"I", "N", "R", "NBSP", "1", "2", "3", "4", "5", "6", "7", "8">>,
      <<"M", "R", "P", ":", " ", "9", ".", "5", "0">>,
      <<"$", "1", "0", ".", "0", "1", " ", "U", "S", "D">>,
      <<"9", "9", "9", "9", "9", "9", "9", ".", "9", "9">>,
      <<"1", "0", "0", "0", "0", "0", "0", "0">>,
      <<"1", "r", "s", "2", ".", "5">> }

PriceTexts == TextsUpTo(PriceAlphabet, MaxTextLen) \cup PriceSamples

InitPrice ==
    /\ text \in PriceTexts
    /\ pricePc = "idle"
    /\ priceOut = None
    /\ priceAgain = None
    /\ IdleExcept({"price"})

\* v = _price(text)
CallPrice ==
    /\ pricePc = "idle"
    /\ priceOut' = _price(text)
    /\ pricePc' = "called"
    /\ UNCHANGED <<text, priceAgain, notPrice>>

\* _price(str(v)) for the value v the first call returned
CallPriceAgain ==
    /\ pricePc = "called"
    /\ priceOut # None
    /\ priceAgain' = _price(FloatToText(priceOut))
    /\ pricePc' = "again"
    /\ UNCHANGED <<text, priceOut, notPrice>>

NextPrice == CallPrice \/ CallPriceAgain

SpecPrice == InitPrice /\ [][NextPrice]_vars

\* ------------------------------------------------------------ claims C3, C4
\* the text left after the two substitutions and strip() of _price
Stripped(t) == Strip(StripCurrencyTokens(StripCurrencyChars(t)), Whitespace)

\* s is digits, or digits "." digits
IsPlainNumber(s) ==
    LET n == DigitRun(s, 1, Len(s))
    IN  /\ n >= 1
        /\ \/ n = Len(s)
           \/ /\ n + 1 < Len(s)
              /\ s[n + 1] = "."
              /\ DigitRun(s, n + 2, Len(s)) = Len(s) - n - 1

\* for a plain number s: number of integer digits after the leading zeros
SignificantIntDigits(s) ==
    LET n == DigitRun(s, 1, Len(s))
        zeros == {i \in 0..n : \A j \in 1..i : s[j] = "0"}
        lead == CHOOSE i \in zeros : \A j \in zeros : j <= i
    IN  n - lead

\* for a plain number s: its value is <= 10 or >= 10,000,000
PlainNumberOutOfRange(s) ==
    LET n == DigitRun(s, 1, Len(s))
        k == SignificantIntDigits(s)
        fracZero == \A i \in (n + 2)..Len(s) : s[i] = "0"
    IN  \/ k >= 8
        \/ k <= 1
        \/ k = 2 /\ DigitsValue(s, n - 1, 2) = 10 /\ fracZero

\* C3 (as stated): _price returns absent for every text whose numeric value,
\* after stripping currency symbols, separators and currency tokens, is <= 10
\* or >= 10,000,000.
C3_OutOfRangeIsAbsent ==
    (pricePc # "idle" /\ pricePc # "off" /\ text # NoText
        /\ IsPlainNumber(Stripped(text)) /\ PlainNumberOutOfRange(Stripped(text)))
    => priceOut = None

\* C4: price normalization is idempotent: when _price(t) returns v, _price
\* applied to the textual form of v returns v again.
C4_PriceIdempotent ==
    pricePc = "again" => priceAgain = priceOut

\* C4 witness: a value with one decimal, whose textual form differs from the
\* text it was read from, has been normalized again
C4_Witness ==
    /\ pricePc = "again"
    /\ priceOut % 100 # 0
    /\ priceOut % 10 = 0
    /\ FloatToText(priceOut) # text

\* ------------------------------------------------ specification extraction
SPEC_MAX_ITEMS == 36

SPEC_NOISE_KEYS ==
    { <<>>,
      <<"a","s","i","n">>,
      <<"m","a","n","u","f","a","c","t","u","r","e","r">>,
      <<"c","u","s","t","o","m","e","r","r","e","v","i","e","w","s">>,
      <<"c","u","s","t","o","m","e","r","r","a","t","i","n","g">>,
      <<"r","e","v","i","e","w","s">>,
      <<"r","a","t","i","n","g","s">>,
      <<"b","e","s","t","s","e","l","l","e","r","s","r","a","n","k">>,
      <<"d","a","t","e","f","i","r","s","t","a","v","a","i","l","a","b","l","e">>,
      <<"s","e","l","l","e","r","s">>,
      <<"s","e","l","l","e","r">>,
      <<"r","e","t","u","r","n","p","o","l","i","c","y">>,
      <<"d","e","l","i","v","e","r","y">>,
      <<"o","f","f","e","r","s">>,
      <<"w","a","r","r","a","n","t","y">>,
      <<"s","e","r","v","i","c","e","s">>,
      <<"p","r","o","d","u","c","t","u","r","l">>,
      <<"u","r","l">>,
      <<"i","m","a","g","e">>,
      <<"s","k","u">>,
      <<"m","o","d","e","l","n","u","m","b","e","r">>,
      <<"i","t","e","m","m","o","d","e","l","n","u","m","b","e","r">> }

\* the set literal of values that mean "unavailable"
UNAVAILABLE_VALUES ==
    { <<"n","a">>, <<"n","/","a">>,
      <<"n","o","t"," ","a","v","a","i","l","a","b","l","e">>,
      <<"n","o","n","e">>, <<"-">>, <<"-","-">> }

\* [‎‏‪-‮]
BidiChars == {"LRM", "RLM", "LRE", "RLE", "PDF", "LRO", "RLO"}

\* re.sub(r"\s+", " ", txt): every run of whitespace becomes one space
CollapseWhitespace(s) ==
    LET marked == [i \in 1..Len(s) |->
                      IF s[i] \notin Whitespace THEN s[i]
                      ELSE IF i > 1 /\ s[i - 1] \in Whitespace THEN "<drop>"
                      ELSE " "]
    IN  SelectSeq(marked, LAMBDA c : c # "<drop>")

_clean_spec_text(value) ==
    IF value = NoText THEN <<>>
    ELSE LET nbsp == [i \in 1..Len(value) |-> IF value[i] = "NBSP" THEN " " ELSE value[i]]
             bidi == SelectSeq(nbsp, LAMBDA c : c \notin BidiChars)
             txt  == Strip(CollapseWhitespace(bidi), Whitespace)
         IN  Strip(Strip(txt, {":", " "}), Whitespace)

\* re.sub(r"[^a-z0-9]+", "", key.lower())
KeyNorm(key) ==
    SelectSeq(Lower(key), LAMBDA c : c \in LowerSet \/ c \in DigitSet)

\* longest key kept
SpecMaxKeyLen == 80
\* longest value kept whole
SpecMaxValLen == 260
\* characters kept of a longer value, before the "..."
SpecCutLen == 257

\* if len(val) > 260: val = val[:257].rstrip() + "..."
TruncateValue(val) ==
    IF Len(val) > SpecMaxValLen
    THEN RStrip(SubSeq(val, 1, SpecCutLen), Whitespace) \o <<".", ".", ".">>
    ELSE val

\* specs[key] = val on a dict kept as its items in insertion order
DictSet(d, key, val) ==
    IF \E i \in 1..Len(d) : d[i][1] = key
    THEN [i \in 1..Len(d) |-> IF d[i][1] = key THEN <<key, val>> ELSE d[i]]
    ELSE Append(d, <<key, val>>)

\* key_norm in seen, with the check left out
AlreadySeenMutant(key_norm, seen) == FALSE
\* key_norm in seen
AlreadySeen(key_norm, seen) == key_norm \in seen

\* len(specs) >= max_items, off by one
SpecsFullMutant(specs, max_items) == Len(specs) > max_items
\* if len(specs) >= max_items: break
SpecsFull(specs, max_items) == Len(specs) >= max_items

\* whether the loop body reaches specs[key] = val for the cleaned key and value
SpecPairKept(key, val, seen) ==
    /\ key # <<>>
    /\ val # <<>>
    /\ KeyNorm(key) # <<>>
    /\ KeyNorm(key) \notin SPEC_NOISE_KEYS
    /\ ~AlreadySeen(KeyNorm(key), seen)
    /\ Lower(val) \notin UNAVAILABLE_VALUES
    /\ Len(key) <= SpecMaxKeyLen

\* the for loop of _normalize_specs from pair i on
RECURSIVE NormalizeFrom(_, _, _, _, _)
NormalizeFrom(ps, i, specs, seen, max_items) ==
    IF i > Len(ps) THEN specs
    ELSE LET key == _clean_spec_text(ps[i][1])
             val == _clean_spec_text(ps[i][2])
         IN  IF ~SpecPairKept(key, val, seen)
             THEN NormalizeFrom(ps, i + 1, specs, seen, max_items)
             ELSE LET specs2 == DictSet(specs, key, TruncateValue(val))
                  IN  IF SpecsFull(specs2, max_items) THEN specs2
                      ELSE NormalizeFrom(ps, i + 1, specs2,
                                         seen \cup {KeyNorm(key)}, max_items)

_normalize_specs(ps, max_items) == NormalizeFrom(ps, 1, <<>>, {}, max_items)

\* ---------------------------------------- _normalize_specs as a state machine
LongKey == [i \in 1..(SpecMaxKeyLen + 1) |-> "k"]
LongValue == [i \in 1..(SpecMaxValLen + 1) |-> IF i >= SpecCutLen - 1 /\ i <= SpecCutLen THEN " " ELSE "w"]

SamplePairs ==
    { << <<"C","o","l","o","r">>, <<"R","e","d">> >>,
      << <<"LRM","C","O","L","O","R",":"," ">>, <<"N","/","A">> >>,
      << <<"C","o","-","l","o","r">>, <<"B","l","u","e">> >>,
      << <<"S","i","z","e">>, LongValue >>,
      << <<"s","i","z","e","NBSP">>, <<"N","o","n","e","TAB"," ","1">> >>,
      << <<"S","K","U",":">>, <<"R","e","d">> >>,
      << <<"-","-">>, <<"R","e","d">> >>,
      << NoText, <<" ","-"," ">> >>,
      << LongKey, <<"B","l","u","e">> >> }

\* n pairs whose keys f1, f2, ... fold to n different keys
Fillers(n) == [i \in 1..n |-> << <<"f">> \o NatToText(i), <<"v">> >>]

FillerCounts == {0, SPEC_MAX_ITEMS - 1, SPEC_MAX_ITEMS}

SpecInputs ==
    LET tails == UNION {[1..k -> SamplePairs] : k \in 0..MaxPairs}
    IN  {Fillers(n) \o t : n \in FillerCounts, t \in tails}
          \cup {t \o Fillers(n) : n \in FillerCounts, t \in tails}

InitSpecs ==
    /\ pairs \in SpecInputs
    /\ specPc = "idle"
    /\ specOut = <<>>
    /\ IdleExcept({"specs"})

\* specs = _normalize_specs(pairs)
CallNormalizeSpecs ==
    /\ specPc = "idle"
    /\ specOut' = _normalize_specs(pairs, SPEC_MAX_ITEMS)
    /\ specPc' = "done"
    /\ UNCHANGED <<pairs, notSpecs>>

NextSpecs == CallNormalizeSpecs

SpecSpecs == InitSpecs /\ [][NextSpecs]_vars

\* ------------------------------------------------------------ claims C5, C6
\* C5: _normalize_specs returns at most 36 entries, none of whose keys folds
\* to the empty string or to a noise key, and none of whose values is empty
\* or an unavailable token.
C5_SpecsBoundedAndClean ==
    specPc = "done" =>
        /\ Len(specOut) <= SPEC_MAX_ITEMS
        /\ \A i \in 1..Len(specOut) :
              /\ KeyNorm(specOut[i][1]) # <<>>
              /\ KeyNorm(specOut[i][1]) \notin SPEC_NOISE_KEYS
              /\ specOut[i][2] # <<>>
              /\ specOut[i][2] \notin UNAVAILABLE_VALUES

\* C5 witness: an input with more than 36 acceptable keys, a noise key and an
\* unavailable value has been normalized to exactly 36 entries
C5_Witness ==
    /\ specPc = "done"
    /\ Len(specOut) = SPEC_MAX_ITEMS
    /\ Len(pairs) > SPEC_MAX_ITEMS
    /\ \E i \in 1..Len(pairs) : KeyNorm(_clean_spec_text(pairs[i][1])) \in SPEC_NOISE_KEYS
    /\ \E i \in 1..Len(pairs) : Lower(_clean_spec_text(pairs[i][2])) \in UNAVAILABLE_VALUES

\* the filters of the claim, for one input pair taken alone
PassesAllFilters(pair) ==
    LET key == _clean_spec_text(pair[1])
        val == _clean_spec_text(pair[2])
    IN  /\ key # <<>> /\ val # <<>>
        /\ KeyNorm(key) \notin SPEC_NOISE_KEYS
        /\ Lower(val) \notin UNAVAILABLE_VALUES
        /\ Len(key) <= SpecMaxKeyLen

\* the folded key of every input pair
InputFolded == [i \in 1..Len(pairs) |-> KeyNorm(_clean_spec_text(pairs[i][1]))]

\* C6: the folded forms of the returned keys are pairwise distinct, there are
\* at most as many returned keys as distinct folded non-noise input keys, and
\* the entry kept for a folded key comes from the first input pair with that
\* folded key that passes all filters.
C6_SpecsDeduplicated ==
    specPc = "done" =>
        LET folded == InputFolded \o <<>>
            passes == [i \in 1..Len(pairs) |-> PassesAllFilters(pairs[i])] \o <<>>
            outFolded == [i \in 1..Len(specOut) |-> KeyNorm(specOut[i][1])] \o <<>>
        IN  /\ \A i, j \in 1..Len(specOut) : outFolded[i] = outFolded[j] => i = j
            /\ Len(specOut) <=
                  Cardinality({folded[i] : i \in 1..Len(pairs)} \ SPEC_NOISE_KEYS)
            /\ \A i \in 1..Len(specOut) :
                  \E first \in 1..Len(pairs) :
                      /\ folded[first] = outFolded[i]
                      /\ passes[first]
                      /\ \A j \in 1..(first - 1) :
                            ~(folded[j] = outFolded[i] /\ passes[j])
                      /\ specOut[i][1] = _clean_spec_text(pairs[first][1])
                      /\ specOut[i][2] = TruncateValue(_clean_spec_text(pairs[first][2]))

\* C6 witness: two input keys differing only by case or punctuation, the
\* first of them rejected for its value, were reduced to one entry that comes
\* from the later pair
C6_Witness ==
    /\ specPc = "done"
    /\ \E i, j \in 1..Len(pairs) :
          /\ i < j
          /\ pairs[i][1] # pairs[j][1]
          /\ KeyNorm(_clean_spec_text(pairs[i][1])) = KeyNorm(_clean_spec_text(pairs[j][1]))
          /\ ~PassesAllFilters(pairs[i])
          /\ \E k \in 1..Len(specOut) :
                /\ specOut[k][1] = _clean_spec_text(pairs[j][1])
                /\ specOut[k][2] = TruncateValue(_clean_spec_text(pairs[j][2]))

\* ------------------------------------------------------------- _blocked
\* signals
BLOCK_SIGNALS ==
    { <<"r","o","b","o","t"," ","c","h","e","c","k">>,
      <<"c","a","p","t","c","h","a">>,
      <<"a","r","e"," ","y","o","u"," ","a"," ","r","o","b","o","t">>,
      <<"e","n","t","e","r"," ","t","h","e"," ","c","h","a","r","a","c","t","e","r","s">>,
      <<"v","e","r","i","f","y"," ","y","o","u"," ","a","r","e"," ","h","u","m","a","n">> }

\* the size under which a body with a signal counts as a block page
BLOCK_MAX_LEN == 20000

\* len(html) < 20000, written <=
BodyIsShortMutant(body) == Len(body) <= BLOCK_MAX_LEN
\* len(html) < 20000
BodyIsShort(body) == Len(body) < BLOCK_MAX_LEN

\* any(s in low for s in signals) and len(html) < 20000, low being html.lower()
_blocked(body) ==
    LET low == Lower(body) \o <<>>
    IN  (\E sig \in BLOCK_SIGNALS : Contains(low, sig)) /\ BodyIsShort(body)

\* ------------------------------------------------ _blocked as a state machine
BlockSnippets ==
    { <<"c","a","p","t","c","h","a">>,
      <<"C","A","P","T","C","H","A">>,
      <<"R","o","b","o","t"," ","C","h","e","c","k">>,
      <<"A","r","e"," ","y","o","u"," ","a"," ","r","o","b","o","t","?">>,
      <<"E","n","t","e","r"," ","t","h","e"," ","c","h","a","r","a","c","t","e","r","s"," ","y","o","u"," ","s","e","e">>,
      <<"P","l","e","a","s","e"," ","v","e","r","i","f","y"," ","y","o","u"," ","a","r","e"," ","h","u","m","a","n",".">>,
      <<"c","a","p","t","c","h">>,
      <<"r","o","b","o","t">>,
      <<"r","o","b","o","t","c","h","e","c","k">>,
      <<"v","e","r","i","f","y"," ","y","o","u"," ","a","r","e"," "," ","h","u","m","a","n">>,
      <<"a"," ","c","a","p","t"," ","c","h","a">>,
      <<"W","e","l","c","o","m","e"," ","t","o"," ","t","h","e"," ","s","h","o","p">>,
      <<"c","h","e","c","k"," ","r","o","b","o","t">>,
      <<>> }

\* snippet s inside a body of n characters: padded on the right, or on the left
PadRight(s, n) == s \o [i \in 1..(n - Len(s)) |-> "x"]
PadLeft(s, n) == [i \in 1..(n - Len(s)) |-> "x"] \o s

BodyLengths(s) ==
    {Len(s)} \cup ((BLOCK_MAX_LEN - MaxLenDelta)..(BLOCK_MAX_LEN + MaxLenDelta))

BlockBodies ==
    UNION {{PadRight(s, n) : n \in BodyLengths(s)}
              \cup {PadLeft(s, n) : n \in BodyLengths(s)} : s \in BlockSnippets}

InitBlocked ==
    /\ html \in BlockBodies
    /\ blockedPc = "idle"
    /\ blockedOut = FALSE
    /\ IdleExcept({"blocked"})

\* blocked = _blocked(html)
CallBlocked ==
    /\ blockedPc = "idle"
    /\ blockedOut' = _blocked(html)
    /\ blockedPc' = "done"
    /\ UNCHANGED <<html, notBlocked>>

NextBlocked == CallBlocked

SpecBlocked == InitBlocked /\ [][NextBlocked]_vars

\* ---------------------------------------------------------------- claim C7
\* phrase occurs in body when letters are compared without regard to case
OccursIgnoringCase(body, phrase) ==
    \E i \in 1..(Len(body) - Len(phrase) + 1) :
        \A j \in 1..Len(phrase) : LowerChar(body[i + j - 1]) = LowerChar(phrase[j])

\* C7: _blocked returns true exactly when the body, compared
\* case-insensitively, contains one of the fixed block-page phrases and is
\* shorter than 20,000 characters.
C7_BlockedIffSignalAndShort ==
    blockedPc = "done" =>
        (blockedOut <=>
            (/\ \E sig \in BLOCK_SIGNALS : OccursIgnoringCase(html, sig)
             /\ Len(html) < BLOCK_MAX_LEN))

\* C7 witness: a body of exactly 20,000 characters holding "captcha" in capitals
\* was classified not blocked
C7_Witness ==
    /\ blockedPc = "done"
    /\ Len(html) = BLOCK_MAX_LEN
    /\ OccursIgnoringCase(html, <<"c","a","p","t","c","h","a">>)
    /\ ~Contains(html, <<"c","a","p","t","c","h","a">>)
    /\ ~blockedOut

\* ------------------------------------------------------------------- URLs
\* least position i >= from with pat at i, 0 when there is none (str.find)
IndexFrom(s, pat, from) ==
    LET hits == {i \in from..(Len(s) - Len(pat) + 1) : MatchAt(s, i, pat)}
    IN  IF hits = {} THEN 0 ELSE CHOOSE i \in hits : \A j \in hits : i <= j

\* least position i with s[i] in cs, Len(s) + 1 when there is none
FirstOf(s, cs) ==
    LET hits == {i \in 1..Len(s) : s[i] \in cs}
    IN  IF hits = {} THEN Len(s) + 1 ELSE CHOOSE i \in hits : \A j \in hits : i <= j

\* s[i:] with positions counted from 1
From(s, i) == SubSeq(s, i, Len(s))

\* s.split(sep): the pieces of s between the occurrences of character sep
SplitOn(s, sep) ==
    LET cuts == {i \in 1..Len(s) : s[i] = sep}
        n == Cardinality(cuts)
        \* position of the k-th separator; 0 and Len(s) + 1 stand at the two ends
        cut(k) == IF k = 0 THEN 0
                  ELSE IF k = n + 1 THEN Len(s) + 1
                  ELSE CHOOSE i \in cuts : Cardinality({j \in cuts : j <= i}) = k
    IN  [k \in 1..(n + 1) |-> SubSeq(s, cut(k - 1) + 1, cut(k) - 1)]

HexDigits ==
    DigitSet \cup {"a","b","c","d","e","f","A","B","C","D","E","F"}

\* the character a percent-escape stands for; escapes of other bytes decode
\* to a character that takes part in no comparison of the code
EscapeChar(h1, h2) ==
    LET hh == <<LowerChar(h1), LowerChar(h2)>>
    IN  CASE hh = <<"2","f">> -> "/"
          [] hh = <<"3","a">> -> ":"
          [] hh = <<"2","e">> -> "."
          [] hh = <<"2","5">> -> "%"
          [] hh = <<"3","f">> -> "?"
          [] hh = <<"3","d">> -> "="
          [] hh = <<"2","6">> -> "&"
          [] hh = <<"2","0">> -> " "
          [] OTHER -> "<byte>"

IsEscapeAt(s, i) ==
    /\ i >= 1 /\ i + 2 <= Len(s)
    /\ s[i] = "%" /\ s[i + 1] \in HexDigits /\ s[i + 2] \in HexDigits

\* urllib.parse.unquote
Unquote(s) ==
    LET marked == [i \in 1..Len(s) |->
                      IF IsEscapeAt(s, i) THEN EscapeChar(s[i + 1], s[i + 2])
                      ELSE IF IsEscapeAt(s, i - 1) \/ IsEscapeAt(s, i - 2) THEN "<drop>"
                      ELSE s[i]]
    IN  SelectSeq(marked, LAMBDA c : c # "<drop>")

SchemeChars == LowerSet \cup UpperSet \cup DigitSet \cup {"+", "-", "."}

\* urllib.parse.urlparse(url), in its steps.  The length of the scheme of u
\* with its colon, 0 when u has no scheme
SchemeLen(u) ==
    LET colon == FirstOf(u, {":"})
    IN  IF /\ colon > 1 /\ colon <= Len(u)
           /\ u[1] \in LowerSet \cup UpperSet
           /\ \A j \in 1..(colon - 1) : u[j] \in SchemeChars
        THEN colon ELSE 0

\* the parts of what follows the netloc: fragment dropped, split at the first "?";
\* ok is FALSE where urlparse raises ValueError (a netloc with one of "[" and
\* "]" and not the other)
UrlParts(netloc, noFrag, qmark) ==
    [ ok |-> ("[" \in {netloc[i] : i \in 1..Len(netloc)})
                = ("]" \in {netloc[i] : i \in 1..Len(netloc)}),
      netloc |-> netloc,
      path |-> SubSeq(noFrag, 1, qmark - 1),
      query |-> From(noFrag, qmark + 1) ]

UrlNoFragment(netloc, noFrag) == UrlParts(netloc, noFrag, FirstOf(noFrag, {"?"}))

UrlTail(netloc, tail) == UrlNoFragment(netloc, SubSeq(tail, 1, FirstOf(tail, {"#"}) - 1))

UrlNetloc(s, netlocEnd) == UrlTail(SubSeq(s, 1, netlocEnd - 1), From(s, netlocEnd))

UrlAfterScheme(rest) ==
    IF MatchAt(rest, 1, <<"/", "/">>)
    THEN UrlNetloc(From(rest, 3), FirstOf(From(rest, 3), {"/", "?", "#"}))
    ELSE UrlTail(<<>>, rest)

UrlParse(u) == UrlAfterScheme(From(u, SchemeLen(u) + 1))

\* urllib.parse.parse_qs(query) as the list of (name, value) it is built
\* from: the fields between "&", split at the first "=", "+" read as a space,
\* both parts unquoted, fields with a blank value dropped
ParseQsl(query) ==
    LET fields == SplitOn(query, "&")
        plus(s) == [i \in 1..Len(s) |-> IF s[i] = "+" THEN " " ELSE s[i]]
        name(f) == Unquote(plus(SubSeq(f, 1, FirstOf(f, {"="}) - 1)))
        value(f) == Unquote(plus(From(f, FirstOf(f, {"="}) + 1)))
        all == [k \in 1..Len(fields) |-> <<name(fields[k]), value(fields[k])>>]
    IN  SelectSeq(all, LAMBDA nv : nv[2] # <<>>)

\* qs[k] of the dict parse_qs returns: the values of name k, in order
QsValues(qsl, k) ==
    LET mine == SelectSeq(qsl, LAMBDA nv : nv[1] = k)
    IN  [i \in 1..Len(mine) |-> mine[i][2]]

\* --------------------------------------------------------- sample URL texts
FK_PRODUCT ==
    <<"h","t","t","p","s",":","/","/","w","w","w",".","f","l","i","p","k",
      "a","r","t",".","c","o","m","/","p","h","o","n","e","-","x","/","p",
      "/","i","t","m","1","?","p","i","d","=","M","O","B","1">>
AMZ_PRODUCT ==
    <<"h","t","t","p","s",":","/","/","w","w","w",".","a","m","a","z","o",
      "n",".","i","n","/","P","h","o","n","e","-","X","-","1","2","8","G",
      "B","/","d","p","/","B","0","X">>
AMZ_COM_PRODUCT ==
    <<"h","t","t","p","s",":","/","/","w","w","w",".","a","m","a","z","o",
      "n",".","c","o","m","/","d","p","/","B","0","Y">>
OTHER_SITE ==
    <<"h","t","t","p","s",":","/","/","e","x","a","m","p","l","e",".","o",
      "r","g","/","l","a","n","d","i","n","g">>
FK_UPPER_MATCH ==
    <<"H","T","T","P","S",":","/","/","W","W","W",".","F","L","I","P","K",
      "A","R","T",".","C","O","M","/","X","/","P","/","Y">>
FK_SHORT_DL ==
    <<"h","t","t","p","s",":","/","/","d","l",".","f","l","i","p","k","a",
      "r","t",".","c","o","m","/","s","/","a","b","c">>
FK_SHORT_FKRT ==
    <<"h","t","t","p","s",":","/","/","f","k","r","t",".","i","t","/","a",
      "b","c">>
FK_SHORT_DL2 ==
    <<"h","t","t","p","s",":","/","/","d","l",".","f","l","i","p","k","a",
      "r","t",".","c","o","m","/","s","/","d","e","f">>
AMZ_PADDED ==
    <<" "," ","h","t","t","p","s",":","/","/","w","w","w",".","a","m","a",
      "z","o","n",".","i","n","/","P","h","o","n","e","-","X","-","1","2",
      "8","G","B","/","d","p","/","B","0","X"," ">>
AMZ_MENTIONED ==
    <<"h","t","t","p","s",":","/","/","e","x","a","m","p","l","e",".","o",
      "r","g","/","g","o","/","a","m","a","z","o","n",".","i","n","/","d",
      "e","a","l">>
AMZ_SHORT ==
    <<"h","t","t","p","s",":","/","/","a","m","z","n",".","i","n","/","d",
      "/","x","y","z">>
SHORT_REDIRECT_PARAM ==
    <<"h","t","t","p","s",":","/","/","b","i","t",".","l","y","/","x","?",
      "r","e","d","i","r","e","c","t","=","h","t","t","p","s","%","3","A",
      "%","2","F","%","2","F","w","w","w",".","f","l","i","p","k","a","r",
      "t",".","c","o","m","%","2","F","p","h","o","n","e","-","x","%","2",
      "F","p","%","2","F","i","t","m","1">>
SHORT_REPEATED_PARAM ==
    <<"h","t","t","p","s",":","/","/","b","i","t",".","l","y","/","x","?",
      "u","r","l","=","f","o","o","&","u","r","l","=","h","t","t","p","s",
      "%","3","A","%","2","F","%","2","F","w","w","w",".","f","l","i","p",
      "k","a","r","t",".","c","o","m","%","2","F","p","%","2","F","a">>
SHORT_LATER_PARAM ==
    <<"h","t","t","p","s",":","/","/","b","i","t",".","l","y","/","x","?",
      "u","=","h","t","t","p","s","%","3","A","%","2","F","%","2","F","e",
      "x","a","m","p","l","e",".","o","r","g","&","t","a","r","g","e","t",
      "=","h","t","t","p","s",":","/","/","w","w","w",".","a","m","a","z",
      "o","n",".","c","o","m","/","d","p","/","B","0","Y">>
SHORT_TWICE_ENCODED ==
    <<"h","t","t","p","s",":","/","/","b","i","t",".","l","y","/","x","?",
      "u","r","l","=","f","l","i","p","k","a","r","t","%","2","5","2","E",
      "c","o","m","%","2","5","2","F","p">>
MALFORMED_WITH_PARAM ==
    <<"h","t","t","p",":","/","/","[","f","k","r","t",".","i","t","/","x",
      "?","u","r","l","=","h","t","t","p","s",":","/","/","w","w","w",".",
      "f","l","i","p","k","a","r","t",".","c","o","m","/","p","/","a">>

\* ------------------------------------------------------------ HTTP replies
\* "amazon.in" in c or "amazon.com" in c or "flipkart.com" in c
MentionsMarket3(c) ==
    \/ Contains(c, <<"a","m","a","z","o","n",".","i","n">>)
    \/ Contains(c, <<"a","m","a","z","o","n",".","c","o","m">>)
    \/ Contains(c, <<"f","l","i","p","k","a","r","t",".","c","o","m">>)

\* "amazon.in" in c or "flipkart.com" in c
MentionsMarket2(c) ==
    \/ Contains(c, <<"a","m","a","z","o","n",".","i","n">>)
    \/ Contains(c, <<"f","l","i","p","k","a","r","t",".","c","o","m">>)

\* a tag that select_one did not find
NoElem == [found |-> FALSE]
Elem(content, href) == [found |-> TRUE, content |-> content, href |-> href]

\* a fetched document, by what the library calls made on it return:
\*   snippet, size   resp.text is the snippet padded to size characters
\*   ogUrl           select_one('meta[property="og:url"]')
\*   canonical       select_one('link[rel="canonical"]')
\*   urlMatches      re.search hits of the product-URL patterns on the text and
\*                   its unquoted form, in the order the code tries them
\*   titleSel        get_text(" ", strip=True) of the title selectors that
\*                   match, in selector order
\*   priceSel        the content attribute, else the text, of the price
\*                   selectors that match, in selector order
\*   scriptPrices    group(1) of the script price patterns that match, in order
\*   pid, pidPrices  the pid the embedded blobs carry, and group(1) of the
\*                   pid-tied patterns that match for it, in order
\*   imgSel          the image elements that match, in selector order
\*   scriptImgs      group(1) of the script image patterns that match, in order
\*   ld              the items of the JSON-LD scripts that parse, in order
\*   ogTitle ... twImage   content of the meta tag, NoText without tag or content
\*   specPairs       the pairs the spec tables and JSON-LD properties give
\*   availability    text of "#availability span", NoText without it
BlankPage ==
    [ snippet |-> <<>>, size |-> 5000,
      ogUrl |-> NoElem, canonical |-> NoElem, urlMatches |-> <<>>,
      titleSel |-> <<>>, priceSel |-> <<>>, scriptPrices |-> <<>>,
      pid |-> NoText, pidPrices |-> <<>>,
      imgSel |-> <<>>, scriptImgs |-> <<>>, ld |-> <<>>,
      ogTitle |-> NoText, ogImage |-> NoText, ogPrice |-> NoText,
      twTitle |-> NoText, twImage |-> NoText,
      specPairs |-> <<>>, availability |-> NoText ]

\* an item of a JSON-LD document: an object, with what the code reads of it
\* (name: the string, NoText when it is missing or not a string; image: the
\* string the code picks, NoText for None; price: str() of the offers price
\* handed to _price, NoText for None), or a value that is not an object
LdItem(name, image, price) ==
    [isDict |-> TRUE, name |-> name, image |-> image, price |-> price]
LdNotAnObject == [isDict |-> FALSE]

\* an image element: the first key of its data-a-dynamic-image JSON object
\* (NoText when the attribute is missing or is not a non-empty object), and its
\* src, data-old-hires and data-src attributes (NoText when missing)
ImgElem(dynFirst, src, oldHires, dataSrc) ==
    [dynFirst |-> dynFirst, src |-> src, oldHires |-> oldHires, dataSrc |-> dataSrc]

TITLE_X == <<"P","h","o","n","e"," ","X"," ","1","2","8","G","B">>
IMG_SEL == <<"h","t","t","p","s",":","/","/","i","m","g",".","e","x","a","m","p","l","e","/","s","e","l",".","j","p","g">>
IMG_LD == <<"h","t","t","p","s",":","/","/","i","m","g",".","e","x","a","m","p","l","e","/","l","d",".","j","p","g">>
IMG_OG == <<"/","/","i","m","g",".","e","x","a","m","p","l","e","/","o","g",".","j","p","g">>
IMG_DATA == <<"d","a","t","a",":","i","m","a","g","e","/","g","i","f",";","b","a","s","e","6","4",",","R","0">>
PID_MOB1 == <<"M","O","B","1">>
SPEC_PAIRS ==
    << <<<<"B","r","a","n","d">>, <<"A","c","m","e">>>>,
       <<<<"b","r","a","n","d",":">>, <<"O","t","h","e","r">>>>,
       <<<<"C","u","s","t","o","m","e","r"," ","R","e","v","i","e","w","s">>, <<"4",".","5">>>>,
       <<<<"R","A","M">>, <<"8"," ","G","B">>>> >>

Pages ==
    [ plain |-> BlankPage,
      tiny |-> [BlankPage EXCEPT !.size = 1000,
                                 !.ogUrl = Elem(FK_PRODUCT, NoText),
                                 !.titleSel = <<TITLE_X>>],
      small |-> [BlankPage EXCEPT !.size = 2000,
                                  !.titleSel = <<<<"a","b","c">>, TITLE_X>>],
      ogurl |-> [BlankPage EXCEPT !.ogUrl = Elem(FK_PRODUCT, NoText)],
      canon |-> [BlankPage EXCEPT !.ogUrl = Elem(OTHER_SITE, NoText),
                                  !.canonical = Elem(NoText, AMZ_PRODUCT),
                                  !.ogTitle = <<" ","O","G"," ","P","h","o","n","e"," ">>],
      bodyurl |-> [BlankPage EXCEPT !.ogUrl = Elem(<<>>, NoText),
                                    !.urlMatches = <<FK_UPPER_MATCH, AMZ_PRODUCT>>],
      full |-> [BlankPage EXCEPT !.titleSel = <<TITLE_X>>,
                                 !.priceSel = <<<<"RUPEE","1",",","2","9","9",".","0","0">>>>,
                                 !.imgSel = <<ImgElem(NoText, IMG_SEL, NoText, NoText)>>,
                                 !.ld = <<LdItem(<<"L","D"," ","P","h","o","n","e">>, IMG_LD, <<"1","5","0","0">>)>>,
                                 !.ogPrice = <<"1","4","5","0">>,
                                 !.specPairs = SPEC_PAIRS,
                                 !.availability = <<"O","n","l","y"," ","2"," ","l","e","f","t">>],
      ldonly |-> [BlankPage EXCEPT !.ld = <<LdItem(NoText, NoText, <<"9","9","9",".","7","5">>),
                                            LdItem(<<"L","D"," ","P","h","o","n","e">>, IMG_LD, <<"1","5","0","0">>)>>,
                                   !.twTitle = <<"T","W"," ","P","h","o","n","e">>],
      ldbad |-> [BlankPage EXCEPT !.titleSel = <<TITLE_X>>,
                                  !.priceSel = <<<<"I","N","R"," ","2",",","4","9","9">>>>,
                                  !.imgSel = <<ImgElem(NoText, IMG_SEL, NoText, NoText)>>,
                                  !.ld = <<LdNotAnObject>>],
      captcha |-> [BlankPage EXCEPT !.snippet = <<"E","n","t","e","r"," ","t","h","e"," ","C","A","P","T","C","H","A">>,
                                    !.titleSel = <<TITLE_X>>],
      bigcaptcha |-> [BlankPage EXCEPT !.snippet = <<"c","a","p","t","c","h","a">>,
                                       !.size = 20000,
                                       !.titleSel = <<TITLE_X>>,
                                       !.priceSel = <<<<"RUPEE","1",",","0","0","0">>>>],
      edge |-> [BlankPage EXCEPT !.priceSel = <<<<"1","0">>>>,
                                 !.scriptPrices = <<<<"1","0",".","0","0">>, <<"1","0",".","0","1">>>>,
                                 !.ogPrice = <<"1","0","0","0","0","0","0","0">>],
      low |-> [BlankPage EXCEPT !.priceSel = <<<<"9",".","5","0">>>>,
                                !.pid = PID_MOB1,
                                !.pidPrices = <<<<"1","2","9","9">>>>],
      pidkeep |-> [BlankPage EXCEPT !.priceSel = <<<<"1","0","0","0">>>>,
                                    !.pid = PID_MOB1,
                                    !.pidPrices = <<<<"2","4","9","9">>>>],
      pidboth |-> [BlankPage EXCEPT !.priceSel = <<<<"9","9","9",".","9","9">>>>,
                                    !.pid = PID_MOB1,
                                    !.pidPrices = <<<<"9","9","9">>>>],
      pidedge |-> [BlankPage EXCEPT !.scriptPrices = <<<<"9","9","9",".","9","9">>>>,
                                    !.pid = PID_MOB1,
                                    !.pidPrices = <<<<"1","0","0","0">>>>],
      pidonly |-> [BlankPage EXCEPT !.pid = PID_MOB1,
                                    !.pidPrices = <<<<"4","5","0">>>>],
      imgonly |-> [BlankPage EXCEPT !.imgSel = <<ImgElem(NoText, IMG_DATA, NoText, NoText)>>,
                                    !.ogImage = IMG_OG],
      imgdata |-> [BlankPage EXCEPT !.titleSel = <<TITLE_X>>,
                                    !.imgSel = <<ImgElem(NoText, IMG_DATA, NoText, NoText)>>,
                                    !.ld = <<LdItem(NoText, IMG_LD, NoText)>>,
                                    !.twImage = IMG_SEL] ]

PageIds == DOMAIN Pages

\* no response (None)
NoResp == "None"

\* what the network gives one GET: an exception (timeout, connection error),
\* or a status and a document
RaisedReply == [exc |-> TRUE]
Reply(status, page) == [exc |-> FALSE, status |-> status, page |-> page]

ProxyReplies ==
    {RaisedReply} \cup {Reply(200, p) : p \in PageIds} \cup {Reply(403, "plain")}

\* smallest len(r.content) that _scraperapi_html accepts is one more
PROXY_MIN_BYTES == 1000

\* _scraperapi_html(url, render, timeout), given what the request brings back;
\* without an API key no request is made
_scraperapi_html(key, reply) ==
    IF ~key THEN NoResp
    ELSE IF reply.exc THEN NoResp
    ELSE IF reply.status = 200 /\ Pages[reply.page].size > PROXY_MIN_BYTES
         THEN reply.page
    ELSE NoResp

\* the response of requests.get(url, allow_redirects=True) in resolve_url:
\*   url        r.url, SameUrl when the request was not redirected
\*   location   r.headers.get("location", "")
\*   urlMatches as for a page, on r.text
SameUrl == <<"<same>">>
DirectReply(url, location, urlMatches) ==
    [exc |-> FALSE, url |-> url, location |-> location, urlMatches |-> urlMatches]

DirectReplies ==
    { RaisedReply,
      DirectReply(SameUrl, <<>>, <<>>),
      DirectReply(FK_PRODUCT, <<>>, <<>>),
      DirectReply(FK_SHORT_DL, <<>>, <<>>),
      DirectReply(FK_SHORT_DL2, <<>>, <<>>),
      DirectReply(SameUrl, AMZ_COM_PRODUCT, <<>>),
      DirectReply(OTHER_SITE, <<"/","l","o","g","i","n">>, <<FK_UPPER_MATCH, FK_PRODUCT>>),
      DirectReply(OTHER_SITE, <<>>, <<FK_UPPER_MATCH>>) }

\* urllib.parse.urljoin(base, ref) for a ref that is absolute or starts at the root
UrlJoin(base, ref) ==
    LET colon == FirstOf(ref, {":"})
    IN  IF colon <= Len(ref) /\ MatchAt(ref, colon, <<":", "/", "/">>) THEN ref
        ELSE LET start == IndexFrom(base, <<":", "/", "/">>, 1) + 3
                 origin == SubSeq(base, 1, start - 1 + FirstOf(From(base, start), {"/", "?", "#"}) - 1)
             IN  origin \o ref

\* s.replace(old, new) for an old no occurrence of which overlaps another
ReplaceAll(s, old, new) ==
    LET at(i) == MatchAt(s, i, old)
        marked == [i \in 1..Len(s) |->
                      IF at(i) THEN "<new>"
                      ELSE IF \E k \in 1..(Len(old) - 1) : at(i - k) THEN "<drop>"
                      ELSE s[i]]
        kept == SelectSeq(marked, LAMBDA c : c # "<drop>")
        parts == [i \in 1..Len(kept) |-> IF kept[i] = "<new>" THEN new ELSE <<kept[i]>>]
        RECURSIVE Flat(_)
        Flat(i) == IF i > Len(parts) THEN <<>> ELSE parts[i] \o Flat(i + 1)
    IN  IF \E i \in 1..Len(s) : at(i) THEN Flat(1) ELSE s

\* c = m.group(0).strip().strip('\'"<>'), and the two replacements
CleanMatch(m) ==
    ReplaceAll(
        ReplaceAll(Strip(Strip(m, Whitespace), {"'", "\"", "<", ">"}),
                   <<"\\", "/">>, <<"/">>),
        <<"\\", "u", "0", "0", "2", "F">>, <<"/">>)

\* the first of the cleaned hits that names a marketplace; NoText for None
FirstMarketUrl(cleaned) ==
    LET good == {i \in 1..Len(cleaned) : MentionsMarket3(cleaned[i])}
    IN  IF good = {} THEN NoText
        ELSE cleaned[CHOOSE i \in good : \A j \in good : i <= j]

\* _extract_product_url_from_text(text), given the pattern hits on the text
_extract_product_url_from_text(matches) ==
    FirstMarketUrl([i \in 1..Len(matches) |-> CleanMatch(matches[i])])

\* ------------------------------------------------------------- resolve_url
\* for k in ("url", "u", "redirect", "redirect_url", "target")
REDIRECT_PARAMS ==
    << <<"u","r","l">>, <<"u">>, <<"r","e","d","i","r","e","c","t">>,
       <<"r","e","d","i","r","e","c","t","_","u","r","l">>,
       <<"t","a","r","g","e","t">> >>

\* if k in qs and qs[k]: c = unquote(str(qs[k][0])): the one value looked at
RedirectCandidates(values) == IF values = <<>> THEN <<>> ELSE <<values[1]>>

\* c = unquote(str(v)) for each of the values looked at
UnquoteAll(values) == [i \in 1..Len(values) |-> Unquote(values[i])]

\* the values c the loop over REDIRECT_PARAMS tests, in the order it meets them
RECURSIVE ParamCandidates(_, _)
ParamCandidates(qsl, k) ==
    IF k > Len(REDIRECT_PARAMS) THEN <<>>
    ELSE UnquoteAll(RedirectCandidates(QsValues(qsl, REDIRECT_PARAMS[k])))
            \o ParamCandidates(qsl, k + 1)

\* the query-parameter step on the parsed URL: the first c that names a
\* marketplace is returned (the test is the one FirstMarketUrl makes)
QueryTargetOf(parsed) ==
    IF ~parsed.ok THEN NoText
    ELSE FirstMarketUrl(ParamCandidates(ParseQsl(parsed.query), 1))

\* the query-parameter step: the value it returns, NoText when it returns
\* nothing (also when urlparse raises, which the step swallows)
QueryTarget(url) == QueryTargetOf(UrlParse(url))

\* header profiles tried: three, the first two when fast
ProfileCount(fast) == IF fast THEN 2 ELSE 3

\* the tests of one pass of the profile loop: final is resp.url, joined the
\* Location header joined to url, inBody what the body gives
DirectPick(url, final, location, joined, inBody) ==
    IF MentionsMarket2(final) /\ final # url THEN final
    ELSE IF location # <<>> /\ MentionsMarket3(joined) THEN joined
    ELSE inBody

\* one pass of the profile loop, given the reply: the URL returned, NoText
\* when the loop goes on
DirectTarget(url, reply) ==
    IF reply.exc THEN NoText
    ELSE DirectPick(url,
                    IF reply.url = SameUrl \/ reply.url = <<>> THEN url ELSE reply.url,
                    reply.location,
                    UrlJoin(url, reply.location),
                    _extract_product_url_from_text(reply.urlMatches))

\* el.get("content") or el.get("href") or ""
ElemTarget(el) ==
    IF el.content # NoText /\ el.content # <<>> THEN el.content
    ELSE IF el.href # NoText /\ el.href # <<>> THEN el.href
    ELSE <<>>

\* the tests on the page the proxy gave: og is the og:url value, canon the
\* canonical one, inBody what the text gives
ProxyPick(url, og, canon, inBody) ==
    IF MentionsMarket2(og) THEN og
    ELSE IF MentionsMarket2(canon) THEN canon
    ELSE IF inBody # NoText THEN inBody
    ELSE url

PageTarget(url, page) ==
    ProxyPick(url,
              IF page.ogUrl.found THEN ElemTarget(page.ogUrl) ELSE <<>>,
              IF page.canonical.found THEN ElemTarget(page.canonical) ELSE <<>>,
              _extract_product_url_from_text(page.urlMatches))

\* the part of resolve_url after the proxy fetch: the value returned for
\* response r of url
ProxyTarget(url, r) == IF r = NoResp THEN url ELSE PageTarget(url, Pages[r])

\* is_fk_short = "dl.flipkart.com" in urlparse(url).netloc.lower()
IsDlFlipkart(url) ==
    Contains(Lower(UrlParse(url).netloc),
             <<"d","l",".","f","l","i","p","k","a","r","t",".","c","o","m">>)

\* return c
ResolveReturn(c) ==
    /\ rsPc' = "returned"
    /\ rsOut' = c
    /\ UNCHANGED <<rsUrl, rsFast, rsTry>>

\* the end of the first try block: c is returned, or the profile loop starts
QueryStep(c) ==
    IF c # NoText
    THEN ResolveReturn(c)
    ELSE /\ rsPc' = "direct"
         /\ rsTry' = 1
         /\ UNCHANGED <<rsUrl, rsFast, rsOut>>

\* the query-parameter step (the first try block)
ResolveQuery ==
    /\ rsPc = "query"
    /\ QueryStep(QueryTarget(rsUrl))
    /\ UNCHANGED <<envVars, notResolve>>

\* the end of one pass of the profile loop: c is returned, or the loop goes on
\* to the next profile, and to the proxy after the last
DirectStep(c) ==
    IF c # NoText
    THEN ResolveReturn(c)
    ELSE /\ rsPc' = IF rsTry < ProfileCount(rsFast) THEN "direct" ELSE "proxy"
         /\ rsTry' = rsTry + 1
         /\ UNCHANGED <<rsUrl, rsFast, rsOut>>

\* one pass of  for h in profiles: a GET, whose exception is swallowed; a
\* URL that does not parse is refused by the client before anything is sent
ResolveDirect ==
    /\ rsPc = "direct"
    /\ \E reply \in DirectReplies :
          /\ UrlParse(rsUrl).ok \/ reply.exc
          /\ netlog' = IF rsTry = 1 THEN Append(netlog, "resolve_get") ELSE netlog
          /\ DirectStep(DirectTarget(rsUrl, reply))
    /\ UNCHANGED <<apiKey, hasCs, notResolve>>

\* the proxy fetch and what follows it; urlparse(url) is outside any try here
ResolveProxy ==
    /\ rsPc = "proxy"
    /\ IF ~UrlParse(rsUrl).ok
       THEN /\ rsPc' = "raised"
            /\ UNCHANGED <<rsUrl, rsFast, rsTry, rsOut, netlog>>
       ELSE \E reply \in ProxyReplies :
               /\ netlog' = IF ~apiKey THEN netlog
                            ELSE Append(netlog, IF IsDlFlipkart(rsUrl)
                                                THEN "proxy_render" ELSE "proxy")
               /\ ResolveReturn(ProxyTarget(rsUrl, _scraperapi_html(apiKey, reply)))
    /\ UNCHANGED <<apiKey, hasCs, notResolve>>

\* ---------------------------------------------- resolve_url as a state machine
ResolveUrls ==
    { FK_SHORT_DL, FK_SHORT_FKRT, AMZ_SHORT, SHORT_REDIRECT_PARAM,
      SHORT_REPEATED_PARAM, SHORT_LATER_PARAM, SHORT_TWICE_ENCODED,
      MALFORMED_WITH_PARAM }

InitResolve ==
    /\ rsUrl \in ResolveUrls
    /\ rsFast \in BOOLEAN
    /\ rsPc = "query"
    /\ rsTry = 0
    /\ rsOut = <<>>
    /\ apiKey \in BOOLEAN
    /\ hasCs = TRUE
    /\ netlog = <<>>
    /\ IdleExcept({"resolve", "env"})

NextResolve == ResolveQuery \/ ResolveDirect \/ ResolveProxy

SpecResolve == InitResolve /\ [][NextResolve]_vars

\* ------------------------------------------------------------ claims C8, C9
\* the values, decoded as parse_qs decodes them, of the redirect parameters
\* of url that contain a marketplace host
RedirectValues(url) ==
    LET qsl == ParseQsl(UrlParse(url).query)
    IN  {qsl[i][2] : i \in {j \in 1..Len(qsl) :
                              /\ \E k \in 1..Len(REDIRECT_PARAMS) : qsl[j][1] = REDIRECT_PARAMS[k]
                              /\ MentionsMarket3(qsl[j][2])}}

\* C8 (as stated): when the URL has a query parameter named url, u, redirect,
\* redirect_url or target whose decoded value contains a marketplace host,
\* resolve_url returns that decoded value and makes no HTTP request.
C8_RedirectParamWithoutRequest ==
    (rsPc # "off" /\ UrlParse(rsUrl).ok /\ RedirectValues(rsUrl) # {}) =>
        /\ netlog = <<>>
        /\ rsPc \in {"query", "returned"}
        /\ rsPc = "returned" => rsOut \in RedirectValues(rsUrl)

\* C9 (as stated): resolve_url never raises, and when the query step, every
\* direct attempt and the proxy step produce no marketplace URL it returns the
\* input URL unchanged.
C9_ResolveNeverRaises ==
    rsPc # "raised"

\* ------------------------------------------------------------- extractors
\* s.startswith(prefix)
StartsWith(s, prefix) == MatchAt(s, 1, prefix)

\* _norm_img(url), NoText for None
_norm_img(url) ==
    IF url = NoText \/ url = <<>> THEN NoText
    ELSE LET stripped == Strip(url, Whitespace)
             full == IF StartsWith(stripped, <<"/","/">>)
                     THEN <<"h","t","t","p","s",":">> \o stripped ELSE stripped
         IN  IF StartsWith(full, <<"h","t","t","p">>) THEN full ELSE NoText

\* a or b, for texts: b when a is None or empty
OrText(a, b) == IF a = NoText \/ a = <<>> THEN b ELSE a

\* (s or "").strip() or None
StripOrNone(s) == IF s = NoText THEN NoText ELSE OrText(Strip(s, Whitespace), NoText)

\* the first value of a price-candidate list that _price accepts, None
\* without one:  for ...: p = _price(...); if p: price = p; break
FirstAccepted(prices) ==
    LET ok == {i \in 1..Len(prices) : prices[i] # None}
    IN  IF ok = {} THEN None
        ELSE prices[CHOOSE i \in ok : \A j \in ok : i <= j]

FirstPrice(texts) == FirstAccepted([i \in 1..Len(texts) |-> _price(texts[i])])

\* the title loop:  if t and len(t) > 3: title = t; break
TITLE_MIN_LEN == 3
FirstTitle(texts) ==
    LET ok == {i \in 1..Len(texts) : Len(texts[i]) > TITLE_MIN_LEN}
    IN  IF ok = {} THEN NoText
        ELSE texts[CHOOSE i \in ok : \A j \in ok : i <= j]

\* _extract_price_from_scripts(html)
_extract_price_from_scripts(page) == FirstPrice(page.scriptPrices)

\* u = m.group(1).replace('\\u002F', '/').replace('\\/', '/')
UnescapeImg(u) ==
    ReplaceAll(ReplaceAll(u, <<"\\","u","0","0","2","F">>, <<"/">>), <<"\\","/">>, <<"/">>)

\* the first of the unescaped hits that _norm_img accepts, as the code
\* returns it: unescaped, not normalised
FirstImage(cleaned) ==
    LET ok == {i \in 1..Len(cleaned) : _norm_img(cleaned[i]) # NoText}
    IN  IF ok = {} THEN NoText
        ELSE cleaned[CHOOSE i \in ok : \A j \in ok : i <= j]

\* _extract_image_from_scripts(html)
_extract_image_from_scripts(page) ==
    FirstImage([i \in 1..Len(page.scriptImgs) |-> UnescapeImg(page.scriptImgs[i])])

PID_PARAM == <<"p","i","d">>

\* _extract_flipkart_pid_price on the parsed url
PidPriceOf(page, parsed) ==
    IF ~parsed.ok THEN None
    ELSE IF QsValues(ParseQsl(parsed.query), PID_PARAM) = <<>> THEN None
    ELSE IF QsValues(ParseQsl(parsed.query), PID_PARAM)[1] # page.pid THEN None
    ELSE FirstPrice(page.pidPrices)

\* _extract_flipkart_pid_price(html, url); an exception gives None
_extract_flipkart_pid_price(page, url) == PidPriceOf(page, UrlParse(url))

\* _json_ld(soup): title, pr, img, or the AttributeError of item.get on a
\* value that is not an object
RECURSIVE JsonLdFrom(_, _, _)
JsonLdFrom(items, i, acc) ==
    IF i > Len(items) THEN acc
    ELSE LET item == items[i]
             needTitle == acc.title = NoText
             needImg == acc.img = NoText \/ acc.img = <<>>
             needPr == acc.pr = None
         IN  IF ~item.isDict
             THEN IF needTitle \/ needImg \/ needPr
                  THEN [acc EXCEPT !.raised = TRUE]
                  ELSE JsonLdFrom(items, i + 1, acc)
             ELSE JsonLdFrom(items, i + 1,
                     [ raised |-> FALSE,
                       title |-> IF needTitle /\ item.name # NoText
                                 THEN StripOrNone(item.name) ELSE acc.title,
                       img |-> IF needImg THEN item.image ELSE acc.img,
                       pr |-> IF needPr THEN _price(item.price) ELSE acc.pr ])

_json_ld(page) ==
    JsonLdFrom(page.ld, 1, [raised |-> FALSE, title |-> NoText, img |-> NoText, pr |-> None])

\* _og(soup): title, pr, img
_og(page) ==
    [ title |-> OrText(StripOrNone(page.ogTitle), StripOrNone(page.twTitle)),
      pr |-> _price(page.ogPrice),
      img |-> OrText(StripOrNone(page.ogImage), StripOrNone(page.twImage)) ]

HTTP_PREFIX == <<"h","t","t","p">>

\* the image loop of scrape_amazon: img as the loop leaves it
RECURSIVE AmazonImgFrom(_, _, _)
AmazonImgFrom(els, i, img) ==
    IF i > Len(els) THEN img
    ELSE IF els[i].dynFirst # NoText THEN els[i].dynFirst
    ELSE LET got == OrText(els[i].src, OrText(els[i].oldHires, els[i].dataSrc))
         IN  IF got # NoText /\ got # <<>> /\ StartsWith(got, HTTP_PREFIX) THEN got
             ELSE AmazonImgFrom(els, i + 1, got)

\* src.split(",")[0].split()[0] for a src that starts with "http"
FirstSrcToken(src) ==
    LET head == SubSeq(src, 1, FirstOf(src, {","}) - 1)
    IN  SubSeq(head, 1, FirstOf(head, Whitespace) - 1)

\* src = el.get("src") or el.get("data-src") or ""
FlipkartSrc(el) == OrText(el.src, OrText(el.dataSrc, <<>>))

\* the first src that starts with "http", cut to its first token
FirstHttpSrc(srcs) ==
    LET ok == {i \in 1..Len(srcs) : StartsWith(srcs[i], HTTP_PREFIX)}
    IN  IF ok = {} THEN NoText
        ELSE FirstSrcToken(srcs[CHOOSE i \in ok : \A j \in ok : i <= j])

\* the image loop of scrape_flipkart
FlipkartImg(els) == FirstHttpSrc([i \in 1..Len(els) |-> FlipkartSrc(els[i])])

\* a price or another: b when a is None
OrPrice(a, b) == IF a = None THEN b ELSE a

IN_STOCK == <<"I","n"," ","S","t","o","c","k">>

Record(platform, title, price, img, url, avail, specs) ==
    [ platform |-> platform, title |-> title, price |-> price, image_url |-> img,
      url |-> url, availability |-> avail, specs |-> specs ]

\* if not price: price = _extract_price_from_scripts(html)
PriceOrScripts(price, page) ==
    IF price = None THEN _extract_price_from_scripts(page) ELSE price

\* if not img: img = _extract_image_from_scripts(html)
ImageOrScripts(img, page) ==
    IF img = NoText \/ img = <<>> THEN _extract_image_from_scripts(page) ELSE img

\* return {...}, the test of the three fields left out
ExtractedMutant(platform, title, price, img, url, avail, specs) ==
    Returned(Record(platform, title, price, img, url, avail, specs))
\* if not (title or price or img): return None;  return {...}
Extracted(platform, title, price, img, url, avail, specs) ==
    IF title = NoText /\ price = None /\ img = NoText THEN Returned(NoRecord)
    ELSE Returned(Record(platform, title, price, img, url, avail, specs))

\* the JSON-LD and og fallbacks, and the return
WithFallbacks(platform, title, price, img, ld, og, url, avail, specs) ==
    IF ld.raised THEN Raised
    ELSE Extracted(platform,
                   OrText(title, OrText(ld.title, og.title)),
                   OrPrice(price, OrPrice(ld.pr, og.pr)),
                   _norm_img(OrText(img, OrText(ld.img, og.img))),
                   url, avail, specs)

\* avail = "In Stock"; if el: avail = el.get_text(" ", strip=True) or "In Stock"
AmazonAvailability(page) ==
    IF page.availability = NoText THEN IN_STOCK ELSE OrText(page.availability, IN_STOCK)

\* scrape_amazon from  html = resp.text  on
AmazonFromPage(page, url) ==
    WithFallbacks("Amazon",
                  FirstTitle(page.titleSel),
                  PriceOrScripts(FirstPrice(page.priceSel), page),
                  ImageOrScripts(AmazonImgFrom(page.imgSel, 1, NoText), page),
                  _json_ld(page), _og(page), url, AmazonAvailability(page),
                  _normalize_specs(page.specPairs, SPEC_MAX_ITEMS))

\* pid_price >= 1000, price < 1000, in hundredths
PID_PRICE_FLOOR == 100000

PidPriceWinsMutant(price, pid_price) == pid_price # None
\* if pid_price and (not price or (price < 1000 and pid_price >= 1000))
PidPriceWins(price, pid_price) ==
    /\ pid_price # None
    /\ \/ price = None
       \/ price < PID_PRICE_FLOOR /\ pid_price >= PID_PRICE_FLOOR

\* url = urljoin(url, href) for the href of the canonical link
CanonicalJoin(url, href) == IF href = NoText THEN url ELSE UrlJoin(url, href)

\* the url scrape_flipkart goes on with: the canonical link when there is one
CanonicalUrl(page, url) ==
    IF page.canonical.found THEN CanonicalJoin(url, StripOrNone(page.canonical.href))
    ELSE url

\* if pid_price and (...): price = pid_price
PidRefined(price, pid_price) == IF PidPriceWins(price, pid_price) THEN pid_price ELSE price

\* scrape_flipkart from the canonical url on
FlipkartFromCanonical(page, url) ==
    WithFallbacks("Flipkart",
                  FirstTitle(page.titleSel),
                  PidRefined(PriceOrScripts(FirstPrice(page.priceSel), page),
                             _extract_flipkart_pid_price(page, url)),
                  ImageOrScripts(FlipkartImg(page.imgSel), page),
                  _json_ld(page), _og(page), url, IN_STOCK,
                  _normalize_specs(page.specPairs, SPEC_MAX_ITEMS))

\* scrape_flipkart from  html = resp.text  to the test of what was extracted;
\* a NoRecord here is the case of the last-resort resolve
FlipkartFromPage(page, url0) == FlipkartFromCanonical(page, CanonicalUrl(page, url0))

\* ------------------------------------------------------- structured JSON
\* a truthy JSON value that is not a string (a number, a list, an object)
NotAString == <<"<not-str>">>

\* a JSON document of the structured endpoint, by what the code reads of it:
\*   isDict       whether the top-level value is an object
\*   name, product_title   the string, NoText when missing or falsy, NotAString
\*   prices       str(v) of the truthy values of price, pricing, list_price,
\*                sale_price, original_price, in that order
\*   nested       str(v) of the truthy values of pricing.current_price, .price,
\*                .sale_price when pricing is an object, in that order
\*   firstImage   images[0] (or product_photos[0]) when it is a string
\*   otherImage   str() of main_image or image or thumbnail
\*   url, availability     the field, NoText when missing or falsy
\*   specPairs    the pairs _extract_specs_from_structured collects
EmptyDoc ==
    [ isDict |-> TRUE, empty |-> TRUE, name |-> NoText, product_title |-> NoText,
      prices |-> <<>>, nested |-> <<>>, firstImage |-> NoText, otherImage |-> NoText,
      url |-> NoText, availability |-> NoText, specPairs |-> <<>> ]

\* price = None; for k in (...): ...; then the nested pricing keys
StructuredPrice(price, data) == IF price = None THEN FirstPrice(data.nested) ELSE price

\* _parse_amazon_structured from the title on; named is
\* data.get("name") or data.get("product_title") or ""
StructuredNamed(data, named) ==
    IF data.empty THEN Returned(NoRecord)
    ELSE IF named = NotAString THEN Raised
    ELSE Extracted("Amazon", StripOrNone(named),
                   StructuredPrice(FirstPrice(data.prices), data),
                   _norm_img(OrText(data.firstImage, data.otherImage)),
                   OrText(data.url, <<>>),
                   OrText(data.availability, IN_STOCK),
                   _normalize_specs(data.specPairs, SPEC_MAX_ITEMS))

\* _parse_amazon_structured(data) for a data that is an object
_parse_amazon_structured(data) ==
    StructuredNamed(data, OrText(data.name, OrText(data.product_title, <<>>)))

\* ------------------------------------------------------------ name from URL
\* re.sub(r'[-_]+', ' ', s).strip()
Spaced(s) ==
    LET sep(i) == i >= 1 /\ s[i] \in {"-", "_"}
        marked == [i \in 1..Len(s) |->
                      IF ~sep(i) THEN s[i] ELSE IF sep(i - 1) THEN "<drop>" ELSE " "]
    IN  Strip(SelectSeq(marked, LAMBDA c : c # "<drop>"), Whitespace)

\* re.search(r'/([^/]+)/<marker>/', path): the index, among the pieces of
\* path.split('/'), of the segment captured; 0 without a match
SegmentBefore(segs, marker) ==
    LET hits == {k \in 2..(Len(segs) - 2) : segs[k] # <<>> /\ segs[k + 1] = marker}
    IN  IF hits = {} THEN 0 ELSE CHOOSE k \in hits : \A m \in hits : k <= m

NAME_SEG_MIN_LEN == 10

\* the segments that hold a "-" and are longer than 10 characters
LongSegments(segs) ==
    {k \in 1..Len(segs) : /\ "-" \in {segs[k][i] : i \in 1..Len(segs[k])}
                          /\ Len(segs[k]) > NAME_SEG_MIN_LEN}

\* max(segs, key=len): the first of the longest
Longest(segs, long) ==
    CHOOSE k \in long :
        \A m \in long : \/ Len(segs[m]) < Len(segs[k])
                        \/ (Len(segs[m]) = Len(segs[k]) /\ k <= m)

\* the generic fallback of _name_from_url
NameFromLong(segs, long) == IF long = {} THEN NoText ELSE Spaced(segs[Longest(segs, long)])

\* the three patterns of _name_from_url, dp and p being the segments the
\* Amazon and Flipkart patterns capture
NameFromSegments(host, segs, dp, p) ==
    IF Contains(host, <<"a","m","a","z","o","n">>) /\ dp # 0 THEN Spaced(segs[dp])
    ELSE IF Contains(host, <<"f","l","i","p","k","a","r","t">>) /\ p # 0 THEN Spaced(segs[p])
    ELSE NameFromLong(segs, LongSegments(segs))

NameFromPath(host, segs) ==
    NameFromSegments(host, segs, SegmentBefore(segs, <<"d","p">>), SegmentBefore(segs, <<"p">>))

NameFromParsed(parsed) ==
    IF ~parsed.ok THEN NoText
    ELSE NameFromPath(Lower(parsed.netloc), SplitOn(Unquote(parsed.path), "/"))

\* _name_from_url(url), NoText for None
_name_from_url(url) == NameFromParsed(UrlParse(url))

\* ------------------------------------------------- the fetches of a scrape
StructDocs ==
    [ full |-> [EmptyDoc EXCEPT !.empty = FALSE,
                                !.name = <<" ","P","h","o","n","e"," ","X"," ","1","2","8","G","B"," ">>,
                                !.prices = <<<<"RUPEE","1",",","2","9","9">>>>,
                                !.firstImage = IMG_SEL,
                                !.url = AMZ_PRODUCT,
                                !.specPairs = SPEC_PAIRS],
      nonstr |-> [EmptyDoc EXCEPT !.empty = FALSE,
                                  !.name = NotAString,
                                  !.prices = <<<<"1","2","9","9">>>>],
      titled |-> [EmptyDoc EXCEPT !.empty = FALSE,
                                  !.product_title = <<"P","h","o","n","e"," ","Y">>,
                                  !.prices = <<<<"{","'","s","y","m","b","o","l","'",":"," ","'","R","s",".","'","}">>>>,
                                  !.nested = <<<<"1","0">>, <<"1",",","4","9","9",".","5","0">>>>,
                                  !.availability = <<"O","u","t"," ","o","f"," ","s","t","o","c","k">>],
      imgonly |-> [EmptyDoc EXCEPT !.empty = FALSE, !.otherImage = IMG_OG],
      blank |-> EmptyDoc,
      list |-> [EmptyDoc EXCEPT !.isDict = FALSE, !.empty = FALSE] ]

\* what the structured endpoint gives: an exception, or a status and a body
\* that is the JSON document doc ("invalid" when r.json() raises)
StructReply(status, doc) == [exc |-> FALSE, status |-> status, doc |-> doc]
StructReplies ==
    {RaisedReply, StructReply(500, "blank"), StructReply(200, "invalid")}
        \cup {StructReply(200, d) : d \in DOMAIN StructDocs}

\* _scraperapi_structured(url) once the request is made: data.keys() raises
\* inside the try for a document that is not an object
_scraperapi_structured(reply) ==
    IF reply.exc \/ reply.status # 200 \/ reply.doc = "invalid" THEN NoResp
    ELSE IF ~StructDocs[reply.doc].isDict THEN NoResp
    ELSE reply.doc

\* whether _scraperapi_structured makes its request for url
AsksStructured(key, url) ==
    key /\ Contains(Lower(url), <<"a","m","a","z","o","n">>)

\* smallest len(r.content) that _direct_fetch accepts is one more
DIRECT_MIN_BYTES == 2000
\* len(UAS)
UA_COUNT == 4

\* the GETs _direct_fetch makes at most
DirectAttempts(cs, fast) ==
    (IF cs THEN 1 ELSE 0) + (IF fast THEN 1 ELSE UA_COUNT)

\* the response one GET of _direct_fetch is accepted as
DirectAccepted(reply) ==
    IF reply.exc THEN NoResp
    ELSE IF reply.status = 200 /\ Pages[reply.page].size > DIRECT_MIN_BYTES
         THEN reply.page
    ELSE NoResp

\* _blocked(resp.text) of each page
BlockedTable(pages) ==
    [p \in DOMAIN pages |-> _blocked(PadRight(pages[p].snippet, pages[p].size))] @@ <<>>

PageBlocked == BlockedTable(Pages)

\* not (not resp), the test of the body left out
UsableMutant(resp) == resp # NoResp
\* not (not resp or _blocked(resp.text))
Usable(resp) == resp # NoResp /\ ~PageBlocked[resp]

\* the replies a proxy fetch can get; none is asked for without a key
ProxyRepliesFor(key) == IF key THEN ProxyReplies ELSE {RaisedReply}

\* a proxy call as the log has it
ProxyLogged(key, render) ==
    IF ~key THEN netlog
    ELSE Append(netlog, IF render THEN "proxy_render" ELSE "proxy")

\* ------------------------------------------------------------ scrape_amazon
\* the scrape returns out
ScrapeDone(out, resp) ==
    /\ scPc' = IF out.raised THEN "raised" ELSE "done"
    /\ scOut' = out
    /\ scResp' = resp
    /\ UNCHANGED <<scUrl, scShort, scTry, scPass>>

ScrapeGoes(pc, resp) ==
    /\ scPc' = pc
    /\ scResp' = resp
    /\ scTry' = IF pc \in {"az_direct", "fk_direct"} THEN 1 ELSE scTry
    /\ UNCHANGED <<scUrl, scShort, scPass, scOut>>

\* the test of the structured result:  result and (title or price)
StructuredUsableMutant(parsed) == parsed.record # NoRecord
StructuredUsable(parsed) ==
    /\ parsed.record # NoRecord
    /\ parsed.record.title # NoText \/ parsed.record.price # None

\* result = _parse_amazon_structured(data) and the test of it
AmazonParsed(parsed) ==
    /\ scResult' = parsed.record
    /\ IF parsed.raised THEN ScrapeDone(Raised, NoResp)
       ELSE IF StructuredUsable(parsed) THEN ScrapeDone(parsed, NoResp)
       ELSE ScrapeGoes("az_proxy", NoResp)

\* scrape_amazon from the structured result on, to the proxy fetch
AmazonAfterStructured(struct) ==
    IF struct = NoResp THEN ScrapeGoes("az_proxy", NoResp) /\ UNCHANGED scResult
    ELSE IF StructDocs[struct].empty
    THEN ScrapeGoes("az_proxy", NoResp) /\ UNCHANGED scResult
    ELSE AmazonParsed(_parse_amazon_structured(StructDocs[struct]))

\* Strategy 1: the structured endpoint
AmazonStructured ==
    /\ scPc = "az_struct"
    /\ IF AsksStructured(apiKey, scUrl)
       THEN \E reply \in StructReplies :
               /\ netlog' = Append(netlog, "structured")
               /\ AmazonAfterStructured(_scraperapi_structured(reply))
       ELSE /\ netlog' = netlog
            /\ AmazonAfterStructured(NoResp)
    /\ UNCHANGED <<apiKey, hasCs, resolveVars, raceVars, analyzeVars, notPipeline>>

\* scrape_amazon from the last fetch on
AmazonFinish(resp) ==
    IF Usable(resp) THEN ScrapeDone(AmazonFromPage(Pages[resp], scUrl), resp)
    ELSE ScrapeDone(Returned(NoRecord), resp)

\* if not resp or _blocked(resp.text): resp = _direct_fetch(url)
AmazonProxied(resp) ==
    IF Usable(resp) THEN AmazonFinish(resp) ELSE ScrapeGoes("az_direct", resp)

\* Strategy 2: proxy HTML without rendering
AmazonProxy ==
    /\ UNCHANGED scResult
    /\ scPc = "az_proxy"
    /\ \E reply \in ProxyRepliesFor(apiKey) :
          /\ netlog' = ProxyLogged(apiKey, FALSE)
          /\ AmazonProxied(_scraperapi_html(apiKey, reply))
    /\ UNCHANGED <<apiKey, hasCs, resolveVars, raceVars, analyzeVars, notPipeline>>

\* ---------------------------------------------------------- scrape_flipkart
\* host in {"dl.flipkart.com", "fkrt.cc", "fkrt.it", "fkrt.to"}
FK_SHORT_HOSTS ==
    { <<"d","l",".","f","l","i","p","k","a","r","t",".","c","o","m">>,
      <<"f","k","r","t",".","c","c">>, <<"f","k","r","t",".","i","t">>, <<"f","k","r","t",".","t","o">> }

\* resolve_url(url) is called
CallResolve(url) ==
    /\ rsUrl' = url
    /\ rsFast' = FALSE
    /\ rsPc' = "query"
    /\ rsTry' = 0
    /\ rsOut' = <<>>

\* the value resolve_url returned has been taken
ResolveTaken ==
    /\ rsUrl' = <<>>
    /\ rsFast' = FALSE
    /\ rsPc' = "off"
    /\ rsTry' = 0
    /\ rsOut' = <<>>

\* scrape_flipkart from the extraction on: out is what the page gave, url the
\* canonical url; a short link that gave nothing is resolved for the retry
FlipkartExtracted(resp, out, url) ==
    IF out.raised \/ out.record # NoRecord \/ ~scShort
    THEN ScrapeDone(out, resp) /\ UNCHANGED resolveVars
    ELSE /\ scPc' = "fk_resolving"
         /\ scUrl' = url
         /\ scResp' = NoResp
         /\ CallResolve(url)
         /\ UNCHANGED <<scShort, scTry, scPass, scOut>>

\* scrape_flipkart from the last fetch on: nothing without a usable response
FlipkartFinish(resp) ==
    IF ~Usable(resp)
    THEN ScrapeDone(Returned(NoRecord), resp) /\ UNCHANGED resolveVars
    ELSE FlipkartExtracted(resp, FlipkartFromPage(Pages[resp], scUrl),
                           CanonicalUrl(Pages[resp], scUrl))

\* the choice of the first strategy, short being is_short_fk; without a key
\* the race and the probe after it return None at once
FlipkartChoose(short) ==
    /\ scShort' = short
    /\ scPc' = IF ~short THEN "fk_proxy" ELSE IF apiKey THEN "fk_race" ELSE "fk_direct"
    /\ scTry' = 1
    /\ raceW' = IF short /\ apiKey THEN <<"running", "running">> ELSE raceW
    /\ netlog' = IF short /\ apiKey
                 THEN netlog \o <<"proxy", "proxy_render">> ELSE netlog
    /\ UNCHANGED <<scUrl, scResp, scPass, scOut, raceOrder, raceSnap, raceYield,
                   racePos, raceRet>>

\* host = urlparse(url).netloc.lower(), outside any try
FlipkartHost(parsed) ==
    IF ~parsed.ok
    THEN /\ scPc' = "raised"
         /\ scOut' = Raised
         /\ UNCHANGED <<scUrl, scShort, scResp, scTry, scPass, raceVars, netlog>>
    ELSE FlipkartChoose(Lower(parsed.netloc) \in FK_SHORT_HOSTS)

\* scrape_flipkart up to its first fetch
FlipkartStart ==
    /\ UNCHANGED scResult
    /\ scPc = "fk_start"
    /\ FlipkartHost(UrlParse(scUrl))
    /\ UNCHANGED <<apiKey, hasCs, resolveVars, analyzeVars, notPipeline>>

\* what a raced fetch can get: no reply, a refusal, a page too small, a
\* block page, a page with nothing to extract, a product page
RaceReplies ==
    {RaisedReply, Reply(403, "plain")}
        \cup {Reply(200, p) : p \in {"tiny", "captcha", "plain", "full"}}

\* one of the two submitted _scraperapi_html calls comes back
RaceWorker(i) ==
    /\ scPc = "fk_race"
    /\ raceW[i] = "running"
    /\ \E reply \in RaceReplies :
          raceW' = [raceW EXCEPT ![i] = _scraperapi_html(TRUE, reply)]
    /\ raceOrder' = Append(raceOrder, i)
    /\ raceYield' = IF raceSnap = None THEN raceYield ELSE Append(raceYield, i)
    /\ UNCHANGED <<raceSnap, racePos, raceRet, scrapeVars, envVars, resolveVars,
                   analyzeVars, notPipeline>>

\* the orders a set of the futures in done can be listed in
SetOrders(done) ==
    {done} \cup {[k \in 1..Len(done) |-> done[Len(done) + 1 - k]]}

\* as_completed is entered: the futures finished by now are listed from a set,
\* in an order of its own; the others follow as they complete
RaceBegin ==
    /\ scPc = "fk_race"
    /\ raceSnap = None
    /\ raceSnap' = Len(raceOrder)
    /\ raceYield' \in SetOrders(raceOrder)
    /\ UNCHANGED <<raceW, raceOrder, racePos, raceRet, scrapeVars, envVars,
                   resolveVars, analyzeVars, notPipeline>>

RACE_SIZE == 2

\* the body of the as_completed loop for the response of the future taken
RaceTaken(resp) ==
    /\ racePos' = racePos + 1
    /\ raceRet' = IF Usable(resp) THEN resp
                  ELSE IF racePos + 1 = RACE_SIZE THEN NoResp
                  ELSE "pending"

\* the as_completed loop takes the next future yielded
RaceTake ==
    /\ scPc = "fk_race"
    /\ raceSnap # None
    /\ raceRet = "pending"
    /\ racePos < Len(raceYield)
    /\ RaceTaken(raceW[raceYield[racePos + 1]])
    /\ UNCHANGED <<raceW, raceOrder, raceSnap, raceYield, scrapeVars, envVars,
                   resolveVars, analyzeVars, notPipeline>>

\* as_completed raises FuturesTimeoutError: at the top of its waiting loop,
\* reached once the futures finished at entry are yielded, the deadline has
\* passed and a future is not yet yielded
RaceDeadline ==
    /\ scPc = "fk_race"
    /\ raceSnap # None
    /\ raceRet = "pending"
    /\ raceSnap <= racePos
    /\ racePos < RACE_SIZE
    /\ raceRet' = NoResp
    /\ UNCHANGED <<raceW, raceOrder, raceSnap, raceYield, racePos, scrapeVars,
                   envVars, resolveVars, analyzeVars, notPipeline>>

\* the with block is left once both workers are through, and scrape_flipkart
\* goes on with what the race returned
RaceExit ==
    /\ UNCHANGED scResult
    /\ scPc = "fk_race"
    /\ raceRet # "pending"
    /\ \A i \in 1..RACE_SIZE : raceW[i] # "running"
    /\ raceW' = <<"idle", "idle">>
    /\ raceOrder' = <<>>
    /\ raceSnap' = None
    /\ raceYield' = <<>>
    /\ racePos' = 0
    /\ raceRet' = "pending"
    /\ IF Usable(raceRet) THEN FlipkartFinish(raceRet)
       ELSE ScrapeGoes("fk_probe", raceRet) /\ UNCHANGED resolveVars
    /\ UNCHANGED <<envVars, analyzeVars, notPipeline>>

\* if not resp or _blocked(resp.text): resp = _direct_fetch(url, fast=True)
FlipkartProxied(resp) ==
    IF Usable(resp) THEN FlipkartFinish(resp)
    ELSE ScrapeGoes("fk_direct", resp) /\ UNCHANGED resolveVars

\* a proxy fetch of scrape_flipkart without rendering
FlipkartPlainProxy ==
    /\ UNCHANGED scResult
    /\ \E reply \in ProxyRepliesFor(apiKey) :
          /\ netlog' = ProxyLogged(apiKey, FALSE)
          /\ FlipkartProxied(_scraperapi_html(apiKey, reply))
    /\ UNCHANGED <<apiKey, hasCs, raceVars, analyzeVars, notPipeline>>

\* the fetch after a race that gave nothing
FlipkartProbe ==
    /\ scPc = "fk_probe"
    /\ FlipkartPlainProxy

\* Strategy 1 for an ordinary host
FlipkartProxy ==
    /\ scPc = "fk_proxy"
    /\ FlipkartPlainProxy

\* Strategy 3 applies:  (not resp or blocked) and SCRAPER_API_KEY and not is_short_fk
RenderAppliesMutant(resp) == ~Usable(resp) /\ apiKey
RenderApplies(resp) == ~Usable(resp) /\ apiKey /\ ~scShort

\* Strategy 3: the rendered proxy fetch
FlipkartRender ==
    /\ UNCHANGED scResult
    /\ scPc = "fk_render"
    /\ \E reply \in ProxyReplies :
          /\ netlog' = ProxyLogged(apiKey, TRUE)
          /\ FlipkartFinish(_scraperapi_html(apiKey, reply))
    /\ UNCHANGED <<apiKey, hasCs, raceVars, analyzeVars, notPipeline>>

\* one GET of _direct_fetch gave resp; last tells whether it was the last one
DirectGot(resp, last) ==
    IF resp = NoResp /\ ~last
    THEN /\ scTry' = scTry + 1
         /\ scResp' = NoResp
         /\ UNCHANGED <<scPc, scUrl, scShort, scPass, scOut, resolveVars>>
    ELSE IF scPc = "az_direct"
    THEN AmazonFinish(resp) /\ UNCHANGED resolveVars
    ELSE IF RenderApplies(resp)
    THEN ScrapeGoes("fk_render", resp) /\ UNCHANGED resolveVars
    ELSE FlipkartFinish(resp)

\* one GET of _direct_fetch (cloudscraper first when there is one), and what
\* the scrape does with the response once _direct_fetch returns
DirectGet ==
    /\ UNCHANGED scResult
    /\ scPc \in {"az_direct", "fk_direct"}
    /\ \E reply \in ProxyReplies :
          /\ netlog' = IF scTry = 1 THEN Append(netlog, "direct") ELSE netlog
          /\ DirectGot(DirectAccepted(reply),
                       scTry >= DirectAttempts(hasCs, scPc = "fk_direct"))
    /\ UNCHANGED <<apiKey, hasCs, raceVars, analyzeVars, notPipeline>>

\* the retry:  if resolved and resolved != url: return scrape_flipkart(resolved)
FlipkartResolved ==
    /\ UNCHANGED scResult
    /\ scPc = "fk_resolving"
    /\ rsPc \in {"returned", "raised"}
    /\ IF rsPc = "raised"
       THEN /\ scPc' = "raised"
            /\ scOut' = Raised
            /\ UNCHANGED <<scUrl, scShort, scResp, scTry, scPass>>
       ELSE IF rsOut # <<>> /\ rsOut # scUrl
       THEN /\ scPc' = IF scPass < MaxPasses THEN "fk_start" ELSE "unfollowed"
            /\ scUrl' = rsOut
            /\ scPass' = scPass + 1
            /\ scResp' = NoResp
            /\ UNCHANGED <<scShort, scTry, scOut>>
       ELSE /\ scPc' = "done"
            /\ scOut' = Returned(NoRecord)
            /\ UNCHANGED <<scUrl, scShort, scResp, scTry, scPass>>
    /\ ResolveTaken
    /\ UNCHANGED <<envVars, raceVars, analyzeVars, notPipeline>>

\* -------------------------------------------------- comparison, prediction
\* days ahead, and the percentage of the current price projected for them
HORIZONS == <<7, 15, 30, 60, 90>>
FactorPctMutant(i) == <<98, 95, 92, 90, 90>>[i]
FactorPct(i) == <<98, 95, 92, 90, 88>>[i]

\* round(p * pct / 100, 2) in hundredths, for p of c hundredths: the nearest
\* hundredth; where the exact product lies half-way the binary product lies on
\* either side of it, and the result is one neighbour or the other
Round2(c, pct) ==
    LET whole == (c \div 100) * pct + ((c % 100) * pct) \div 100
        rest == ((c % 100) * pct) % 100
    IN  IF rest < 50 THEN {whole}
        ELSE IF rest > 50 THEN {whole + 1}
        ELSE {whole, whole + 1}

\* the future_prices dicts the code can build for current price c
FuturePrices(c) ==
    { <<f1, f2, f3, f4, f5>> :
        f1 \in Round2(c, FactorPct(1)), f2 \in Round2(c, FactorPct(2)),
        f3 \in Round2(c, FactorPct(3)), f4 \in Round2(c, FactorPct(4)),
        f5 \in Round2(c, FactorPct(5)) }

\* the future_prices dict: the projections under their horizons, in days
FutureMap(future) ==
    [d \in {HORIZONS[i] : i \in 1..Len(future)} |->
        future[CHOOSE i \in 1..Len(future) : HORIZONS[i] = d]]

\* min(future_prices.values())
MinOf(seq) == CHOOSE m \in {seq[i] : i \in 1..Len(seq)} : \A i \in 1..Len(seq) : m <= seq[i]

\* (max_savings / current_price) > 0.05, as hundredths
WAIT_PCT == 5

\* (max_savings / current_price) > 0.5, ten times the code's threshold
WaitsMutant(c, max_savings) == max_savings > c \div 2
\* (max_savings / current_price) > 0.05:  max_savings above the whole part
\* of 5% of the price, the product taken in two parts
Waits(c, max_savings) ==
    max_savings > (c \div 100) * WAIT_PCT + ((c % 100) * WAIT_PCT) \div 100

\* the prediction block once max_savings and the test on it are known
Predicted(future, found, max_savings, wait) ==
    [ future_prices |-> FutureMap(future),
      recommendation |-> IF wait THEN "WAIT" ELSE "BUY_NOW",
      max_savings |-> max_savings,
      best_time_days |-> IF wait THEN 90 ELSE None,
      confidence |-> IF found = 2 THEN 85 ELSE 60 ]

\* the prediction block for current price c and projections future
Prediction(c, future, found) ==
    IF c = None
    THEN [ future_prices |-> <<>>, recommendation |-> "PRICE_UNAVAILABLE",
           max_savings |-> None, best_time_days |-> None,
           confidence |-> IF found = 2 THEN 85 ELSE 60 ]
    ELSE Predicted(future, found, c - MinOf(future), Waits(c, c - MinOf(future)))

\* prices[0] - prices[1], the sign kept
PriceDiffMutant(a, b) == a - b
\* abs(prices[0] - prices[1])
PriceDiff(a, b) == IF a - b < 0 THEN b - a ELSE a - b

\* the comparison block for results, the (platform, record) items of the
\* results dict in insertion order
Comparison(results) ==
    LET priced == SelectSeq(results, LAMBDA r : r[2].price # None)
        best == {i \in 1..Len(priced) :
                    \A j \in 1..Len(priced) :
                        \/ priced[i][2].price < priced[j][2].price
                        \/ priced[i][2].price = priced[j][2].price /\ i <= j}
        first == CHOOSE i \in best : TRUE
    IN  [ cheapest_platform |-> IF priced = <<>> THEN "None" ELSE priced[first][1],
          cheapest_price |-> IF priced = <<>> THEN None ELSE priced[first][2].price,
          price_difference |-> IF Len(priced) = 2
                               THEN PriceDiff(priced[1][2].price, priced[2][2].price)
                               ELSE None,
          savings_platform |-> IF priced = <<>> THEN "None" ELSE priced[first][1],
          both_found |-> Len(results) = 2 ]

NOT_VERIFIED == <<"P","r","i","c","e"," ","c","o","u","l","d"," ","n","o","t"," ","b","e"," ","v","e","r","i","f","i","e","d">>

\* ------------------------------------------------------------- analyze_url
Failure(error) == [success |-> FALSE, error |-> error]

\* if not product_name: product_name = _name_from_url(url)
NameOr(scraped, url) ==
    IF scraped = NoText \/ scraped = <<>> THEN _name_from_url(url) ELSE scraped

\* product_name as analyze_url has it after the name fallback
ProductName(data, url) == NameOr(IF data = NoRecord THEN NoText ELSE data.title, url)

\* the record analyze_url makes up when the scrape gave nothing but a name
DegradedMutant(source, product_name, url) ==
    Record(IF source = "amazon" THEN "Amazon" ELSE "Flipkart",
           product_name, None, NoText, url, IN_STOCK, <<>>)
Degraded(source, product_name, url) ==
    Record(IF source = "amazon" THEN "Amazon" ELSE "Flipkart",
           product_name, None, NoText, url, NOT_VERIFIED, <<>>)

\* the results dict with the scraped record entered under both marketplaces
ResultsMutant(source, data, product_name, url) ==
    IF data # NoRecord
    THEN << <<source, data>>,
            <<IF source = "amazon" THEN "flipkart" ELSE "amazon", data>> >>
    ELSE IF product_name # NoText /\ product_name # <<>>
    THEN << <<source, Degraded(source, product_name, url)>> >>
    ELSE <<>>
\* the results dict, as its (platform, record) items
Results(source, data, product_name, url) ==
    IF data # NoRecord THEN << <<source, data>> >>
    ELSE IF product_name # NoText /\ product_name # <<>>
    THEN << <<source, Degraded(source, product_name, url)>> >>
    ELSE <<>>

\* results.get(plat, {"found": False, ...})
PlatformEntry(source, src_data, plat) ==
    IF source = plat THEN src_data ELSE [found |-> FALSE]

\* the dict analyze_url returns for results that are not empty
Success(raw, url, source, product_name, results, src_data, future) ==
    [ success |-> TRUE,
      product_name |-> product_name,
      source_platform |-> source,
      source_url |-> raw,
      resolved_url |-> url,
      platforms_found |-> [i \in 1..Len(results) |-> results[i][1]],
      product |-> [ name |-> product_name, current_price |-> src_data.price,
                    source |-> source, url |-> url,
                    image_url |-> src_data.image_url ],
      prediction |-> Prediction(src_data.price, future, Len(results)),
      amazon |-> PlatformEntry(source, src_data, "amazon"),
      flipkart |-> PlatformEntry(source, src_data, "flipkart"),
      comparison |-> Comparison(results) ]

\* if not results and not product_name: return the failure
ResultOf(raw, url, source, product_name, results, future) ==
    IF results = <<>> THEN Failure("no_product_details")
    ELSE Success(raw, url, source, product_name, results, results[1][2], future)

AnalysisNamed(raw, url, source, data, future, product_name) ==
    ResultOf(raw, url, source, product_name,
             Results(source, data, product_name, url), future)

\* analyze_url from the scrape on, for what the scrape returned and the
\* projections chosen
AnalysisResult(raw, url, source, data, future) ==
    AnalysisNamed(raw, url, source, data, future, ProductName(data, url))

\* the platform's scraper is called, or the failure returned
Detected(url, amazon, flipkart) ==
    /\ anUrl' = url
    /\ IF amazon \/ flipkart
       THEN /\ anSource' = IF amazon THEN "amazon" ELSE "flipkart"
            /\ anPc' = "scraping"
            /\ anResult' = anResult
            /\ scPc' = IF amazon THEN "az_struct" ELSE "fk_start"
            /\ scUrl' = url
            /\ scPass' = IF amazon THEN 0 ELSE 1
            /\ UNCHANGED <<scShort, scResp, scTry, scResult, scOut>>
       ELSE /\ anPc' = "returned"
            /\ anResult' = Failure("no_platform")
            /\ UNCHANGED <<anSource, scrapeVars>>

\* the tests on url_l = url.lower()
DetectLower(url, url_l) ==
    Detected(url,
             \/ Contains(url_l, <<"a","m","a","z","o","n",".","i","n">>)
             \/ Contains(url_l, <<"a","m","a","z","o","n",".","c","o","m">>),
             Contains(url_l, <<"f","l","i","p","k","a","r","t",".","c","o","m">>))

\* Detect platform, and the call of the platform's scraper
Detect(url) == DetectLower(url, Lower(url))

\* _is_short(url)
SHORT_HOSTS ==
    { <<"a","m","z","n",".","i","n">>, <<"a","m","z","n",".","t","o">>, <<"a","m","z","n",".","e","u">>, <<"a",".","c","o">>,
      <<"f","k","r","t",".","c","c">>, <<"f","k","r","t",".","i","t">>, <<"f","k","r","t",".","t","o">>,
      <<"d","l",".","f","l","i","p","k","a","r","t",".","c","o","m">>,
      <<"b","i","t",".","l","y">>, <<"t",".","c","o">>, <<"o","w",".","l","y">>, <<"g","o","o",".","g","l">>,
      <<"t","i","n","y","u","r","l",".","c","o","m">> }

\* urlparse(url).netloc.lower().lstrip("www.")
StrippedHost(url) == LStrip(Lower(UrlParse(url).netloc), {"w", "."})

_is_short(url) == StrippedHost(url) \in SHORT_HOSTS

\* whether analyze_url resolves url itself
ResolvesFirst(url) ==
    /\ StrippedHost(url) \notin FK_SHORT_HOSTS
    /\ \/ StrippedHost(url) \in SHORT_HOSTS
       \/ /\ ~Contains(url, <<"a","m","a","z","o","n",".","i","n">>)
          /\ ~Contains(url, <<"f","l","i","p","k","a","r","t",".","c","o","m">>)

\* analyze_url from  url = raw_url.strip()  to its first call that reaches
\* the network; urlparse(url) is outside any try
Analyze(url) ==
    IF url = <<>>
    THEN /\ anPc' = "returned"
         /\ anResult' = Failure("url_required")
         /\ UNCHANGED <<anUrl, anSource, scrapeVars, resolveVars>>
    ELSE IF ~UrlParse(url).ok
    THEN /\ anPc' = "raised"
         /\ anUrl' = url
         /\ UNCHANGED <<anSource, anResult, scrapeVars, resolveVars>>
    ELSE IF ResolvesFirst(url)
    THEN /\ anPc' = "resolving"
         /\ anUrl' = url
         /\ CallResolve(url)
         /\ UNCHANGED <<anSource, anResult, scrapeVars>>
    ELSE Detect(url) /\ UNCHANGED resolveVars

AnalyzeStart ==
    /\ anPc = "start"
    /\ Analyze(Strip(anRaw, Whitespace))
    /\ UNCHANGED <<anRaw, envVars, raceVars, notPipeline>>

\* url = resolve_url(url), and on to the platform's scraper
AnalyzeResolved ==
    /\ anPc = "resolving"
    /\ rsPc \in {"returned", "raised"}
    /\ IF rsPc = "raised"
       THEN /\ anPc' = "raised"
            /\ UNCHANGED <<anUrl, anSource, anResult, scrapeVars>>
       ELSE Detect(rsOut)
    /\ ResolveTaken
    /\ UNCHANGED <<anRaw, envVars, raceVars, notPipeline>>

\* analyze_url from the return of the scraper to its own
AnalyzeFinish ==
    /\ anPc = "scraping"
    /\ scPc \in {"done", "raised"}
    /\ IF scOut.raised
       THEN /\ anPc' = "raised"
            /\ anResult' = anResult
       ELSE /\ anPc' = "returned"
            /\ \E future \in (IF scOut.record # NoRecord /\ scOut.record.price # None
                              THEN FuturePrices(scOut.record.price) ELSE {<<>>}) :
                  anResult' = AnalysisResult(anRaw, anUrl, anSource, scOut.record, future)
    /\ UNCHANGED <<anRaw, anUrl, anSource, envVars, resolveVars, scrapeVars, raceVars,
                   notPipeline>>

\* ---------------------------------------------- analyze_url as a state machine
AnalyzeUrls ==
    { FK_PRODUCT, AMZ_PRODUCT, AMZ_COM_PRODUCT, AMZ_PADDED, AMZ_MENTIONED, OTHER_SITE,
      FK_SHORT_DL, FK_SHORT_FKRT, AMZ_SHORT, SHORT_REDIRECT_PARAM,
      MALFORMED_WITH_PARAM, <<" ">> }

InitAnalyze ==
    /\ anRaw \in AnalyzeUrls
    /\ anPc = "start"
    /\ anUrl = <<>>
    /\ anSource = "None"
    /\ anResult = [success |-> FALSE]
    /\ apiKey \in BOOLEAN
    /\ hasCs \in BOOLEAN
    /\ netlog = <<>>
    /\ IdleExcept({"analyze", "env"})

NextAnalyze ==
    \/ AnalyzeStart
    \/ ResolveQuery
    \/ ResolveDirect
    \/ ResolveProxy
    \/ AnalyzeResolved
    \/ AmazonStructured
    \/ AmazonProxy
    \/ FlipkartStart
    \/ \E i \in 1..RACE_SIZE : RaceWorker(i)
    \/ RaceBegin
    \/ RaceTake
    \/ RaceDeadline
    \/ RaceExit
    \/ FlipkartProbe
    \/ FlipkartProxy
    \/ DirectGet
    \/ FlipkartRender
    \/ FlipkartResolved
    \/ AnalyzeFinish

SpecAnalyze == InitAnalyze /\ [][NextAnalyze]_vars

\* -------------------------------------------------------- claims C1, C2, C10
\* C1 (as stated): analyze_url never propagates an exception to its caller:
\* for every input URL and whatever the fetches return it returns a result.
\* The code raises: urlparse at the head of analyze_url for a URL with an
\* unbalanced bracket in its host, _parse_amazon_structured for a name that is
\* not a string, _json_ld for an item that is not an object.
C1_AnalyzeNeverRaises == anPc # "raised"

\* a price is absent, or strictly between 10 and 10,000,000 (in hundredths)
InRange(p) == p = None \/ (p > 1000 /\ p < 1000000000)

\* C2: in every record a scraper returns and in every result of analyze_url
\* the price is absent or strictly between 10 and 10,000,000, and so are
\* product.current_price, comparison.cheapest_price and the platform entries.
C2_PricesInRange ==
    /\ scOut.record # NoRecord => InRange(scOut.record.price)
    /\ (anPc = "returned" /\ anResult.success) =>
          /\ InRange(anResult.product.current_price)
          /\ InRange(anResult.comparison.cheapest_price)
          /\ \A entry \in {anResult.amazon, anResult.flipkart} :
                "price" \in DOMAIN entry => InRange(entry.price)

\* analyze_url has returned a result whose price is the smallest a page gave
\* that lies above 10: 10.01, met after "10" and "10.00" were passed over
C2_Witness ==
    /\ anPc = "returned"
    /\ anResult.success
    /\ anResult.product.current_price = 1001
    /\ anResult.comparison.cheapest_price = 1001

\* f is p * pct / 100 rounded to the hundredth, for p and f in hundredths:
\* 100 * f lies within 50 of p * pct (the product is taken in two parts)
Nearest(f, p, pct) ==
    LET off == 100 * (f - (p \div 100) * pct) - (p % 100) * pct
    IN  -50 <= off /\ off <= 50

\* C10: with a price p the prediction has exactly the horizons 7, 15, 30, 60
\* and 90 days, with p * 0.98, 0.95, 0.92, 0.90, 0.88 rounded to 2 decimals,
\* non-increasing in the horizon, and max_savings is p minus the smallest;
\* p = 1000 gives 980, 950, 920, 900, 880 and 120.  Without a price the map
\* is empty and max_savings is absent.
C10_Prediction ==
    (anPc = "returned" /\ anResult.success) =>
        LET p == anResult.product.current_price
            f == anResult.prediction.future_prices
        IN  IF p = None
            THEN /\ DOMAIN f = {}
                 /\ anResult.prediction.max_savings = None
            ELSE /\ DOMAIN f = {7, 15, 30, 60, 90}
                 /\ Nearest(f[7], p, 98)
                 /\ Nearest(f[15], p, 95)
                 /\ Nearest(f[30], p, 92)
                 /\ Nearest(f[60], p, 90)
                 /\ Nearest(f[90], p, 88)
                 /\ f[7] >= f[15] /\ f[15] >= f[30] /\ f[30] >= f[60] /\ f[60] >= f[90]
                 /\ anResult.prediction.max_savings = p - f[90]
                 /\ \A d \in DOMAIN f : f[90] <= f[d]
                 /\ p = 100000 =>
                       /\ f = (7 :> 98000 @@ 15 :> 95000 @@ 30 :> 92000
                                 @@ 60 :> 90000 @@ 90 :> 88000)
                       /\ anResult.prediction.max_savings = 12000

\* analyze_url has returned a result for a price of 1000 with its five
\* projections
C10_Witness ==
    /\ anPc = "returned"
    /\ anResult.success
    /\ anResult.product.current_price = 100000
    /\ DOMAIN anResult.prediction.future_prices = {7, 15, 30, 60, 90}
    /\ anResult.prediction.max_savings = 12000

\* ----------------------------------------------------------------- claim C11
\* C11: in every successful result the recommendation is PRICE_UNAVAILABLE
\* exactly when the source record has no price; with a price it is WAIT when
\* max_savings / current_price exceeds 5% and BUY_NOW when it does not.
C11_Recommendation ==
    (anPc = "returned" /\ anResult.success) =>
        LET p == anResult.product.current_price
            rec == anResult.prediction.recommendation
            ms == anResult.prediction.max_savings
        IN  /\ rec \in {"PRICE_UNAVAILABLE", "WAIT", "BUY_NOW"}
            /\ (rec = "PRICE_UNAVAILABLE") <=> (p = None)
            /\ p # None => ((rec = "WAIT") <=> (100 * ms > 5 * p))

\* analyze_url has returned a result with a price and the advice to wait,
\* its savings of 12% lying above the 5%
C11_Witness ==
    /\ anPc = "returned"
    /\ anResult.success
    /\ anResult.product.current_price = 100000
    /\ anResult.prediction.max_savings = 12000
    /\ anResult.prediction.recommendation = "WAIT"

\* ------------------------------------------------------ the comparison step
\* the marketplaces a results dict is keyed by
PLATFORMS == {"amazon", "flipkart"}

\* prices a record can carry: none, or 10.01, 500, 650, 1299, 9999999.99
ComparePrices == {None, 1001, 50000, 65000, 129900, 999999999}

\* a record as a scrape returns it, or the one made up for a name alone
SampleRecord(plat, price) ==
    IF price = None THEN Degraded(plat, <<"P">>, <<>>)
    ELSE Record(IF plat = "amazon" THEN "Amazon" ELSE "Flipkart",
                <<"P">>, price, NoText, <<>>, IN_STOCK, <<>>)

\* the results dicts of zero, one or two marketplaces, in either insertion
\* order (analyze_url itself fills in the source marketplace only: the search
\* of the other one is commented out)
CompareInputs ==
    {<<>>}
    \cup { << <<a, SampleRecord(a, p)>> >> : a \in PLATFORMS, p \in ComparePrices }
    \cup { << <<o[1], SampleRecord(o[1], p)>>, <<o[2], SampleRecord(o[2], q)>> >> :
             o \in {<<"amazon", "flipkart">>, <<"flipkart", "amazon">>},
             p \in ComparePrices, q \in ComparePrices }

InitCompare ==
    /\ cmpResults \in CompareInputs
    /\ cmpPc = "idle"
    /\ cmpOut = [both_found |-> FALSE]
    /\ IdleExcept({"compare"})

\* the "Build comparison" block and the "comparison" entry made of it
BuildComparison ==
    /\ cmpPc = "idle"
    /\ cmpOut' = Comparison(cmpResults)
    /\ cmpPc' = "done"
    /\ UNCHANGED <<cmpResults, notCompare>>

NextCompare == BuildComparison

SpecCompare == InitCompare /\ [][NextCompare]_vars

\* the positions of cmpResults whose record has a price
PricedAt == {i \in 1..Len(cmpResults) : cmpResults[i][2].price # None}

\* the marketplaces of cmpResults whose record has a price
PricedPlatforms == {cmpResults[i][1] : i \in PricedAt}

\* C12: for every set of 0-2 platform records, cheapest_platform and
\* cheapest_price are the marketplace and value of the minimum available
\* price (both absent when no record has a price), and price_difference is
\* present exactly when both marketplaces have a price, equal to the absolute
\* difference of the two; A at 500 and B at 650 give cheapest A, difference 150.
C12_Comparison ==
    cmpPc = "done" =>
        /\ PricedAt = {} =>
              /\ cmpOut.cheapest_platform = "None"
              /\ cmpOut.cheapest_price = None
        /\ PricedAt # {} =>
              \E i \in PricedAt :
                  /\ cmpOut.cheapest_platform = cmpResults[i][1]
                  /\ cmpOut.cheapest_price = cmpResults[i][2].price
                  /\ \A j \in PricedAt :
                        cmpResults[i][2].price <= cmpResults[j][2].price
        /\ (cmpOut.price_difference # None) <=> (PricedPlatforms = PLATFORMS)
        /\ PricedPlatforms = PLATFORMS =>
              /\ cmpOut.price_difference >= 0
              /\ \/ cmpOut.price_difference
                       = cmpResults[1][2].price - cmpResults[2][2].price
                 \/ cmpOut.price_difference
                       = cmpResults[2][2].price - cmpResults[1][2].price
        /\ cmpResults = << <<"amazon", SampleRecord("amazon", 50000)>>,
                           <<"flipkart", SampleRecord("flipkart", 65000)>> >> =>
              /\ cmpOut.cheapest_platform = "amazon"
              /\ cmpOut.cheapest_price = 50000
              /\ cmpOut.price_difference = 15000

\* the comparison was built for Amazon at 500 and Flipkart at 650
C12_Witness ==
    /\ cmpPc = "done"
    /\ Len(cmpResults) = 2
    /\ cmpResults[1][1] = "amazon" /\ cmpResults[1][2].price = 50000
    /\ cmpResults[2][1] = "flipkart" /\ cmpResults[2][2].price = 65000
    /\ cmpOut.cheapest_platform = "amazon"
    /\ cmpOut.price_difference = 15000

HostOf(source, host) ==
    IF source = "amazon"
    THEN \/ Contains(host, <<"a","m","a","z","o","n",".","i","n">>)
         \/ Contains(host, <<"a","m","a","z","o","n",".","c","o","m">>)
    ELSE Contains(host, <<"f","l","i","p","k","a","r","t",".","c","o","m">>)

\* the host of the url analyze_url goes on with
AnalyzedHost == Lower(UrlParse(anUrl).netloc)

\* C14: analyze_url identifies the source marketplace from the host of the
\* (resolved) URL: a scraper is invoked only for a URL whose host belongs to
\* that marketplace, and a URL whose host is neither Amazon nor Flipkart gives
\* the platform-unidentifiable failure with no scraper invoked.
C14_SourceFromHost ==
    /\ anSource # "None" => HostOf(anSource, AnalyzedHost)
    /\ ( /\ anPc \in {"scraping", "returned"}
         /\ anUrl # <<>>
         /\ ~HostOf("amazon", AnalyzedHost)
         /\ ~HostOf("flipkart", AnalyzedHost) ) =>
            /\ anPc = "returned"
            /\ anResult = Failure("no_platform")
            /\ scPc = "off"

\* ----------------------------------------------------------------- claim C15
\* the scraper of the identified marketplace has returned no record and
\* analyze_url has returned
NoRecordReturned ==
    /\ anPc = "returned"
    /\ anSource # "None"
    /\ scPc = "done"
    /\ scOut = Returned(NoRecord)

PHONE_X == <<"P","h","o","n","e"," ","X"," ","1","2","8","G","B">>

\* C15: when the platform is identified and the scraper returns no record,
\* a name derivable from the URL path gives success with exactly one record,
\* for the source marketplace, carrying the title only (no price, no image,
\* availability "Price could not be verified") and the recommendation
\* PRICE_UNAVAILABLE; otherwise the no-extractable-data failure.
C15_NameOnlyRecord ==
    NoRecordReturned =>
        IF _name_from_url(anUrl) \in {NoText, <<>>}
        THEN anResult = Failure("no_product_details")
        ELSE /\ anResult.success
             /\ anResult.platforms_found = <<anSource>>
             /\ anResult[anSource].title = _name_from_url(anUrl)
             /\ anResult[anSource].price = None
             /\ anResult[anSource].image_url = NoText
             /\ anResult[anSource].availability = NOT_VERIFIED
             /\ anResult[anSource].specs = <<>>
             /\ anResult[IF anSource = "amazon" THEN "flipkart" ELSE "amazon"]
                   = [found |-> FALSE]
             /\ anResult.product.current_price = None
             /\ anResult.product.name = _name_from_url(anUrl)
             /\ anResult.prediction.recommendation = "PRICE_UNAVAILABLE"
             /\ anUrl = AMZ_PRODUCT => anResult.amazon.title = PHONE_X

\* the scrape of .../Phone-X-128GB/dp/B0X gave nothing and the result
\* carries the name alone
C15_Witness ==
    /\ NoRecordReturned
    /\ anUrl = AMZ_PRODUCT
    /\ anResult.success
    /\ anResult.amazon.title = PHONE_X
    /\ anResult.amazon.availability = NOT_VERIFIED

\* ----------------------------------------------------------- claims C16, C17
\* the race has decided what to return and has not yet returned
RaceDecided == scPc = "fk_race" /\ raceRet # "pending"

\* C16: once one attempt has completed with a non-blocked response, the race
\* returns it without waiting for the other attempt still in flight.
C16_ReturnsWithoutWaiting ==
    (RaceDecided /\ Usable(raceRet)) => ENABLED RaceExit

\* the completed workers whose response is usable, by position in raceOrder
UsableDone == {k \in 1..Len(raceOrder) : Usable(raceW[raceOrder[k]])}

\* C17: for every interleaving and completion order the race returns a
\* response only if it is non-blocked, returns the earliest-completed
\* non-blocked response when an attempt yields one (a blocked or failed first
\* finisher does not end the race), and returns nothing when both attempts
\* fail, are blocked or raise, or when the deadline expires.
C17_EarliestNonBlocked ==
    RaceDecided =>
        /\ raceRet # NoResp =>
              /\ Usable(raceRet)
              /\ \E k \in UsableDone :
                    /\ raceRet = raceW[raceOrder[k]]
                    /\ \A j \in UsableDone : k <= j
        /\ raceRet = NoResp =>
              \A k \in 1..racePos : ~Usable(raceW[raceYield[k]])
        /\ (racePos = RACE_SIZE /\ UsableDone = {}) => raceRet = NoResp

\* ----------------------------------------------------------------- claim C18
\* C18: scrape_flipkart re-invokes the whole scrape at most once: whatever
\* the resolver returns (another short link different from its input
\* included), the passes of one call number at most two.
C18_AtMostTwoPasses == scPass <= 2

\* ----------------------------------------------------------------- claim C19
\* scrape_amazon is running
InAmazon == scPc \in {"az_struct", "az_proxy", "az_direct"}

\* one step of scrape_amazon keeps to the order of its strategies
AmazonOrderStep ==
    /\ scPc = "az_struct" =>
          /\ scPc' \in {"az_proxy", "done", "raised"}
          /\ netlog' \in {netlog, Append(netlog, "structured")}
          /\ scPc' = "done" =>
                /\ scOut'.record # NoRecord
                /\ scOut'.record.title # NoText \/ scOut'.record.price # None
    /\ scPc = "az_proxy" =>
          /\ scPc' \in {"az_direct", "done", "raised"}
          /\ netlog' \in {netlog, Append(netlog, "proxy")}
          /\ scPc' = "az_direct" <=> ~Usable(scResp')
    /\ scPc = "az_direct" =>
          /\ ~Usable(scResp)
          /\ scPc' \in {"az_direct", "done", "raised"}
          /\ netlog' \in {netlog, Append(netlog, "direct")}
    /\ (scPc' = "done" /\ scPc # "az_struct" /\ ~Usable(scResp')) =>
          scOut' = Returned(NoRecord)

AfterFirstStrategy == scPc \in {"fk_probe", "fk_direct", "fk_render"}

\* one step of scrape_flipkart keeps to the chain of its strategies
FlipkartOrderStep ==
    /\ scPc = "fk_proxy" =>
          /\ ~scShort
          /\ netlog' \in {netlog, Append(netlog, "proxy")}
          /\ scPc' = "fk_direct" <=> ~Usable(scResp')
    /\ scPc = "fk_race" =>
          /\ scShort
          /\ netlog' = netlog
    /\ (AfterFirstStrategy /\ scShort) =>
          /\ netlog' \in {netlog, Append(netlog, "direct")}
          /\ scPc' # "fk_render"
    /\ scPc = "fk_direct" =>
          /\ ~Usable(scResp)
          /\ netlog' \in {netlog, Append(netlog, "direct")}
    /\ scPc = "fk_render" =>
          /\ ~scShort
          /\ ~Usable(scResp)
          /\ netlog' = Append(netlog, "proxy_render")

\* C20: scrape_flipkart tries each strategy only after the previous one
\* failed or was blocked: the first proxy step (the race for a short-link
\* host, one non-rendered proxy fetch for an ordinary host), then the direct
\* fetch, then the rendered proxy fetch for an ordinary host only; for a
\* short-link host the strategy tried right after a failed or blocked race is
\* the direct fetch, and no rendered last-resort fetch is made.
C20_FlipkartChain == [][FlipkartOrderStep]_vars

\* ----------------------------------------------------------------- claim C21
\* scrape_amazon has ended on its HTML path: it holds a usable response
AmazonHtmlEnded ==
    /\ anSource = "amazon"
    /\ scPc \in {"done", "raised"}
    /\ Usable(scResp)

\* the first of the texts that is present, NoText without one
FirstText(texts) ==
    LET ok == {i \in 1..Len(texts) : texts[i] # NoText /\ texts[i] # <<>>}
    IN  IF ok = {} THEN NoText ELSE texts[CHOOSE i \in ok : \A j \in ok : i <= j]

\* C21: in the HTML path of scrape_amazon, title and price each come from the
\* highest family that yields a value, in the order structural selectors,
\* embedded scripts (price only), JSON-LD, meta tags: a structural value wins
\* over the JSON-LD one, and a lower family is consulted only for a field that
\* every higher family left empty.
C21_FamilyPrecedence ==
    AmazonHtmlEnded =>
        /\ ~scOut.raised
        /\ scOut.record # NoRecord =>
              /\ scOut.record.title
                    = FirstText(<<FirstTitle(Pages[scResp].titleSel),
                                  _json_ld(Pages[scResp]).title,
                                  _og(Pages[scResp]).title>>)
              /\ scOut.record.price
                    = FirstAccepted(<<FirstPrice(Pages[scResp].priceSel),
                                      FirstPrice(Pages[scResp].scriptPrices),
                                      _json_ld(Pages[scResp]).pr,
                                      _og(Pages[scResp]).pr>>)
              /\ scResp = "full" =>
                    /\ scOut.record.title = TITLE_X
                    /\ scOut.record.price = 129900

\* ----------------------------------------------------------------- claim C22
\* a scrape is past its structured step, where records are built from HTML
InHtmlPath == scPc \in {"az_proxy", "az_direct", "fk_race", "fk_probe", "fk_proxy",
                        "fk_direct", "fk_render", "fk_resolving"}

\* one step that ends a scrape: a record only from a response that exists and
\* is not blocked, nothing when the response held is missing or blocked
EndsOnUsable ==
    (InHtmlPath /\ scPc' = "done" /\ scOut'.record # NoRecord) =>
        /\ scResp' # NoResp
        /\ ~PageBlocked[scResp']

\* C22: extraction never runs on a blocked or missing response: a record
\* built from HTML is built only from a response that exists and whose body
\* is classified non-blocked, and when every attempted strategy failed or was
\* blocked the scrape returns nothing.
C22_NoExtractionWhenBlocked ==
    [][ /\ EndsOnUsable
        /\ (InHtmlPath /\ scPc' \in {"done", "raised"}
              /\ (scResp' = NoResp \/ PageBlocked[scResp'])) =>
              scOut'.record = NoRecord ]_vars

\* a scrape has ended on a block page that has a title to extract, and has
\* returned nothing
C22_Witness ==
    /\ scPc = "done"
    /\ scResp = "captcha"
    /\ Pages["captcha"].titleSel # <<>>
    /\ scOut = Returned(NoRecord)

\* ----------------------------------------------------------------- claim C23
\* the fields of title, price and image that rec has
FieldsOf(rec) ==
    {f \in {"title", "price", "image_url"} :
        IF f = "price" THEN rec.price # None
        ELSE rec[f] # NoText /\ rec[f] # <<>>}

\* C23: every record returned by scrape_amazon, scrape_flipkart or
\* _parse_amazon_structured has at least one of title, price, image; a
\* candidate with none of the three is discarded (nothing is returned) and a
\* candidate with exactly one of them is returned as a record.
C23_RecordHasAField ==
    /\ scOut.record # NoRecord => FieldsOf(scOut.record) # {}
    /\ scResult # NoRecord => FieldsOf(scResult) # {}
    /\ (scPc = "done" /\ scResp = "plain") => scOut.record = NoRecord
    /\ (scPc = "done" /\ scResp = "small") =>
          /\ scOut.record # NoRecord
          /\ scOut.record.title = TITLE_X
          /\ FieldsOf(scOut.record) = {"title"}
    /\ (scPc = "az_proxy" /\ scResult # NoRecord) =>
          FieldsOf(scResult) = {"image_url"}

\* the structured parser returned a record with an image alone, and the
\* scrape then returned one with a title alone
C23_Witness ==
    /\ anSource = "amazon"
    /\ scPc = "done"
    /\ scResult # NoRecord
    /\ FieldsOf(scResult) = {"image_url"}
    /\ scResp = "small"
    /\ FieldsOf(scOut.record) = {"title"}

\* ----------------------------------------------------------------- claim C24
\* scrape_flipkart has ended on a page it extracted from
FlipkartHtmlEnded ==
    /\ anSource = "flipkart"
    /\ scPc = "done"
    /\ Usable(scResp)
    /\ scOut.record # NoRecord

\* the price found before the pid step: selectors, then embedded scripts
FoundPrice(page) ==
    FirstAccepted(<<FirstPrice(page.priceSel), FirstPrice(page.scriptPrices)>>)

\* the price after the pid step as the claim has it, for the price found
\* and the pid-tied price, in hundredths
AfterPid(found, tied) ==
    IF tied # None /\ (found = None \/ (found < 100000 /\ tied >= 100000))
    THEN tied ELSE found

\* C24: in scrape_flipkart the price tied to the URL's pid replaces the price
\* found so far exactly when a pid-tied price exists and either no price was
\* found, or the found price is below 1000 while the pid-tied one is at least
\* 1000; otherwise the found price is kept (one of 1000 or more is never
\* overridden).
C24_PidPrice ==
    FlipkartHtmlEnded =>
        /\ AfterPid(FoundPrice(Pages[scResp]),
                    _extract_flipkart_pid_price(Pages[scResp], scOut.record.url)) # None =>
              scOut.record.price
                 = AfterPid(FoundPrice(Pages[scResp]),
                            _extract_flipkart_pid_price(Pages[scResp], scOut.record.url))
        /\ scOut.record.url = FK_PRODUCT =>
              /\ scResp = "low" => scOut.record.price = 129900
              /\ scResp = "pidedge" => scOut.record.price = 100000
              /\ scResp = "pidonly" => scOut.record.price = 45000
              /\ scResp = "pidboth" => scOut.record.price = 99999
              /\ scResp = "pidkeep" => scOut.record.price = 100000
              /\ scResp = "full" => scOut.record.price = 129900

\* a found price of 1000 was kept although the page ties 2499 to the pid
C24_Witness ==
    /\ FlipkartHtmlEnded
    /\ scOut.record.url = FK_PRODUCT
    /\ scResp = "pidkeep"
    /\ _extract_flipkart_pid_price(Pages[scResp], scOut.record.url) = 249900
    /\ scOut.record.price = 100000

\* ----------------------------------------------------------------- claim C25
\* analyze_url was given a URL on a Flipkart short-link host and is past its
\* first step
ShortLinkGiven ==
    /\ anPc \in {"resolving", "scraping", "returned"}
    /\ UrlParse(Strip(anRaw, Whitespace)).ok
    /\ Lower(UrlParse(Strip(anRaw, Whitespace)).netloc) \in FK_SHORT_HOSTS

\* C25: for every URL whose host is a Flipkart short-link host
\* (dl.flipkart.com, fkrt.cc, fkrt.it, fkrt.to) analyze_url skips its own
\* resolution step, takes Flipkart as the source and calls scrape_flipkart on
\* the URL; it never returns the platform-unidentifiable error for it.
C25_ShortLinkIsFlipkart ==
    ShortLinkGiven =>
        /\ anPc # "resolving"
        /\ anUrl = Strip(anRaw, Whitespace)
        /\ anSource = "flipkart"
        /\ scPass >= 1
        /\ anResult # Failure("no_platform")

\* ----------------------------------------------------------------- claim C26
\* C26: in every successful analyze_url result exactly one marketplace record
\* is present, the source marketplace's; the other marketplace's entry is the
\* not-found placeholder, so both_found is false, price_difference is absent,
\* the confidence is 0.60 (never 0.85) and cheapest_platform is absent or the
\* source marketplace.
C26_OneRecord ==
    (anPc = "returned" /\ anResult.success) =>
        /\ anResult.source_platform = anSource
        /\ anResult.platforms_found = <<anSource>>
        /\ "platform" \in DOMAIN anResult[anSource]
        /\ anResult[IF anSource = "amazon" THEN "flipkart" ELSE "amazon"]
              = [found |-> FALSE]
        /\ anResult.comparison.both_found = FALSE
        /\ anResult.comparison.price_difference = None
        /\ anResult.prediction.confidence = 60
        /\ anResult.comparison.cheapest_platform \in {"None", anSource}
        /\ (anResult.comparison.cheapest_platform = "None")
              <=> (anResult.product.current_price = None)

\* a successful result for a Flipkart record with a price
C26_Witness ==
    /\ anPc = "returned"
    /\ anResult.success
    /\ anSource = "flipkart"
    /\ anResult.flipkart.price = 129900
    /\ anResult.amazon = [found |-> FALSE]
    /\ anResult.comparison.cheapest_platform = "flipkart"
    /\ anResult.prediction.confidence = 60

\* how many prices are taken from each end of the accepted range
MaxPriceSpan == 120

\* current prices of the prediction step: none, the prices just above 10.00,
\* the prices just below 10,000,000.00, and some in between
PredictPrices ==
    {None, 50000, 65000, 129900, 1999999, 100000050}
    \cup (PriceLow + 1 .. PriceLow + MaxPriceSpan)
    \cup (PriceHigh - MaxPriceSpan .. PriceHigh - 1)

InitPredict ==
    /\ curPrice \in PredictPrices
    /\ predPc = "idle"
    /\ predOut = [recommendation |-> "None", best_time_days |-> None]
    /\ IdleExcept({"predict"})

\* the "AI-style prediction" block of analyze_url, for one or two records found
BuildPrediction ==
    /\ predPc = "idle"
    /\ \E found \in 1..2 :
         \E future \in (IF curPrice = None THEN {<<>>} ELSE FuturePrices(curPrice)) :
            predOut' = Prediction(curPrice, future, found)
    /\ predPc' = "done"
    /\ UNCHANGED <<curPrice, notPredict>>

NextPredict == BuildPrediction

SpecPredict == InitPredict /\ [][NextPredict]_vars

\* C27: BUY_NOW is unreachable: for every price strictly between 10 and
\* 10,000,000 the largest projected saving, after the rounding to two
\* decimals, is more than 5% of the price, so the prediction built for a price
\* recommends WAIT with best_time_days 90, and the one built without a price
\* is PRICE_UNAVAILABLE with no best_time_days.
C27_NeverBuyNow ==
    predPc = "done" =>
        /\ predOut.recommendation # "BUY_NOW"
        /\ curPrice # None =>
              /\ Sane(curPrice)
              /\ predOut.max_savings > curPrice \div 20
              /\ predOut.recommendation = "WAIT"
              /\ predOut.best_time_days = 90
        /\ curPrice = None =>
              /\ predOut.recommendation = "PRICE_UNAVAILABLE"
              /\ predOut.best_time_days = None

\* the prediction has been built for the smallest accepted price, 10.01
C27_Witness ==
    /\ predPc = "done"
    /\ curPrice = PriceLow + 1
    /\ predOut.recommendation = "WAIT"

\* ----------------------------------------------------------------- claim C28
\* url is an absolute http(s) URL
AbsoluteUrl(url) == url # NoText /\ StartsWith(url, HTTP_PREFIX)

\* the candidate an image element offers: the first key of its dynamic-image
\* object, else the first present of src, data-old-hires and data-src
ElemImage(el) ==
    IF el.dynFirst # NoText THEN el.dynFirst
    ELSE OrText(el.src, OrText(el.oldHires, el.dataSrc))

\* some family of the page (image selectors, embedded scripts, JSON-LD,
\* OG/Twitter meta) supplies an absolute http(s) URL
SomeFamilyHasImage(page) ==
    \/ \E i \in 1..Len(page.imgSel) : AbsoluteUrl(ElemImage(page.imgSel[i]))
    \/ AbsoluteUrl(_extract_image_from_scripts(page))
    \/ AbsoluteUrl(_json_ld(page).img)
    \/ AbsoluteUrl(_og(page).img)

\* C28: in the HTML path of scrape_amazon the image is present whenever at
\* least one family (image selectors, embedded scripts, JSON-LD, OG/Twitter
\* meta) supplies an absolute http(s) URL: a selector match whose src is not
\* absolute (a data: URI, a relative path) does not keep the later families
\* from supplying it; and every image of a returned record starts with "http".
C28_ImageFromAnyFamily ==
    (AmazonHtmlEnded /\ ~scOut.raised) =>
        /\ SomeFamilyHasImage(Pages[scResp]) =>
              /\ scOut.record # NoRecord
              /\ scOut.record.image_url # NoText
        /\ (scOut.record # NoRecord /\ scOut.record.image_url # NoText) =>
              StartsWith(scOut.record.image_url, HTTP_PREFIX)

\* ------------------------------------------------ app.py: the trending deals
\* limit = max(5, min(int(request.args.get('limit', 15)), 30))
MIN_LIMIT == 5
MAX_LIMIT == 30
\* latest.head(max(limit, 20))
HEAD_MIN == 20

\* the most products data.csv holds, the most times it is rewritten, and
\* the most calls made
MaxProducts == 22
MaxWrites == 1
MaxCalls == 3

\* the limit arguments of the requests
LimitArgs == {1, 5, 20, 21, 30, 99}

\* data.csv after the cleaning, grouping and ranking of lines 265-285: one row
\* per product, the best deal first; a row is its product's rank, negated
\* when its Description is blank
DataFile(n, blank) == [i \in 1..n |-> IF i \in blank THEN 0 - i ELSE i]
DataFiles ==
    {DataFile(n, blank) : n \in 0..MaxProducts, blank \in {{}, {2}}}

Max(a, b) == IF a < b THEN b ELSE a
Min(a, b) == IF a < b THEN a ELSE b

\* seq[:n]
Take(seq, n) == SubSeq(seq, 1, Min(n, Len(seq)))

\* the loop of lines 287-321 over rows: a deal for each row with a name
RECURSIVE DealsOf(_, _, _)
DealsOf(rows, i, deals) ==
    IF i > Len(rows) THEN deals
    ELSE DealsOf(rows, i + 1, IF rows[i] < 0 THEN deals ELSE Append(deals, rows[i]))

\* the deals list lines 263-321 build from rows for limit
ComputedDeals(rows, limit) == DealsOf(Take(rows, Max(limit, HEAD_MIN)), 1, <<>>)

\* _TRENDING_CACHE['mtime'] == mtime and _TRENDING_CACHE['deals']
CacheHit(cache, mtime) == cache.mtime = mtime /\ cache.deals # <<>>

\* _compute_trending_deals(limit): what it returns and the cache it leaves
Trending(rows, exists, mtime, cache, now, limit) ==
    IF ~exists THEN [out |-> [deals |-> <<>>, generated_at |-> None], cache |-> cache]
    ELSE IF CacheHit(cache, mtime)
    THEN [out |-> [deals |-> Take(cache.deals, limit),
                   generated_at |-> cache.generated_at],
          cache |-> cache]
    ELSE IF rows = <<>>
    THEN [out |-> [deals |-> <<>>, generated_at |-> None], cache |-> cache]
    ELSE [out |-> [deals |-> Take(ComputedDeals(rows, limit), limit),
                   generated_at |-> now],
          cache |-> [mtime |-> mtime, deals |-> ComputedDeals(rows, limit),
                     generated_at |-> now]]

InitTrending ==
    /\ dataRows \in DataFiles
    /\ dataExists \in BOOLEAN
    /\ dataExists \/ dataRows = <<>>
    /\ dataMtime = 1
    /\ _TRENDING_CACHE = EmptyCache
    /\ tdClock = 1
    /\ tdPc = "idle"
    /\ tdLimit = 0
    /\ tdOut = [deals |-> <<>>, generated_at |-> None]
    /\ IdleExcept({"trending"})

\* get_trending_deals, for a logged-in session: the limit clamped, and
\* _compute_trending_deals called with it
GetTrendingDeals ==
    /\ tdPc \in {"idle", "done"}
    /\ tdClock <= MaxCalls
    /\ \E arg \in LimitArgs :
         LET limit == Max(MIN_LIMIT, Min(arg, MAX_LIMIT))
             got == Trending(dataRows, dataExists, dataMtime, _TRENDING_CACHE,
                             tdClock, limit)
         IN  /\ tdLimit' = limit
             /\ tdOut' = got.out
             /\ _TRENDING_CACHE' = got.cache
    /\ tdClock' = tdClock + 1
    /\ tdPc' = "done"
    /\ UNCHANGED <<dataRows, dataExists, dataMtime, notTrending>>

\* data.csv is written anew: its contents and its modification time change
RewriteData ==
    /\ tdPc \in {"idle", "done"}
    /\ dataMtime <= MaxWrites
    /\ \E rows \in DataFiles :
         /\ rows # dataRows
         /\ dataRows' = rows
    /\ dataExists' = TRUE
    /\ dataMtime' = dataMtime + 1
    /\ tdPc' = "idle"
    /\ UNCHANGED <<_TRENDING_CACHE, tdClock, tdLimit, tdOut, notTrending>>

NextTrending == GetTrendingDeals \/ RewriteData

SpecTrending == InitTrending /\ [][NextTrending]_vars

\* what a computation without the cache returns for the file and limit
Uncached(rows, exists, limit) ==
    Trending(rows, exists, dataMtime, EmptyCache, 0, limit).out.deals

\* C29: the trending-deals cache is transparent: for every sequence of calls
\* of _compute_trending_deals with limits in 5..30 and an unchanged data file,
\* each call returns the deals a computation without the cache would return
\* for that limit (a larger limit after a smaller one is not truncated), and
\* a change of the file's modification time invalidates the cache.
C29_CacheTransparent ==
    tdPc = "done" => tdOut.deals = Uncached(dataRows, dataExists, tdLimit)

\* -------------------------------------------------------- app.py: the signup
\* the signup requests served at the same time
MaxSignups == 2
SignupIds == 1..MaxSignups

\* len(password) < 8
MIN_PASSWORD_LEN == 8

EMAIL_A == <<"a","@","x">>
EMAIL_A_RAW == <<" ","A","@","X"," ">>
EMAIL_B == <<"b","@","x">>
PASSWORD_OK == <<"p","a","s","s","w","o","r","d">>

\* the JSON body of a signup request
SignupBody(email, password, first_name, last_name) ==
    [email |-> email, password |-> password,
     first_name |-> first_name, last_name |-> last_name]

SignupBodies ==
    { SignupBody(EMAIL_A, PASSWORD_OK, <<"A","n","n">>, <<"L","e","e">>),
      SignupBody(EMAIL_A_RAW, PASSWORD_OK, <<"A","l">>, <<"R","o","e">>),
      SignupBody(EMAIL_B, PASSWORD_OK, <<" ","B","o"," ">>, <<"D","a","y">>),
      SignupBody(EMAIL_B, <<"s","e","c","r","e","t","1">>, <<"B","o">>, <<"D","a","y">>),
      SignupBody(<<"a","x">>, PASSWORD_OK, <<"A","n","n">>, <<"L","e","e">>),
      SignupBody(EMAIL_A, PASSWORD_OK, <<" ">>, <<"L","e","e">>) }

\* users.csv while to_csv has opened it for writing and not yet written it
Truncated == "truncated"

\* a row of users.csv; created_at is the request whose datetime.now() it holds
UserRow(email, password_hash, first_name, last_name, created_at) ==
    [email |-> email, password_hash |-> password_hash,
     first_name |-> first_name, last_name |-> last_name, created_at |-> created_at]

\* hashlib.sha256(password.encode()).hexdigest(): one digest per password
hash_password(password) == <<"sha256">> \o password

\* a response of signup
NoResponse == [status |-> 0]
SignupResponse(status, success) == [status |-> status, success |-> success]

\* data.get('email', '').strip().lower()
NormalizedEmail(raw) == Lower(Strip(raw, Whitespace))

\* df['email'] = df['email'].str.strip().str.lower()
NormalizedRows(rows) ==
    [i \in 1..Len(rows) |-> [rows[i] EXCEPT !.email = NormalizedEmail(rows[i].email)]]

\* email in df['email'].values
Registered(df, email) == \E i \in 1..Len(df) : df[i].email = email

\* the checks of signup lines 199-204 pass
SignupValid(body) ==
    /\ NormalizedEmail(body.email) # <<>>
    /\ body.password # <<>>
    /\ Strip(body.first_name, Whitespace) # <<>>
    /\ Strip(body.last_name, Whitespace) # <<>>
    /\ Len(body.password) >= MIN_PASSWORD_LEN
    /\ Contains(NormalizedEmail(body.email), <<"@">>)

\* new_row of save_user for the body of request r
NewRow(body, r) ==
    UserRow(NormalizedEmail(body.email), hash_password(body.password),
            Strip(body.first_name, Whitespace),
            Strip(body.last_name, Whitespace), r)

\* users.csv as init_users_db leaves it, or with a user registered before
InitialUsers ==
    {<<>>, <<UserRow(EMAIL_B, hash_password(PASSWORD_OK), <<"B","e","a">>, <<"K","a","y">>, 0)>>}

InitSignup ==
    /\ usersFile \in InitialUsers
    /\ suBody \in [SignupIds -> SignupBodies]
    /\ suPc = [r \in SignupIds |-> "start"]
    /\ suDf = [r \in SignupIds |-> <<>>]
    /\ suResp = [r \in SignupIds |-> NoResponse]
    /\ IdleExcept({"signup"})

\* signup up to the call of save_user: the fields read and checked
SignupStart(r) ==
    /\ suPc[r] = "start"
    /\ IF SignupValid(suBody[r])
       THEN /\ suPc' = [suPc EXCEPT ![r] = "read"]
            /\ UNCHANGED suResp
       ELSE /\ suPc' = [suPc EXCEPT ![r] = "done"]
            /\ suResp' = [suResp EXCEPT ![r] = SignupResponse(400, FALSE)]
    /\ UNCHANGED <<usersFile, suBody, suDf, notSignup>>

\* save_user lines 142-154: the file read, the email looked up, the row
\* appended to the local df; read_csv raises on a file with nothing in it,
\* and signup answers 500
SaveRead(r) ==
    /\ suPc[r] = "read"
    /\ IF usersFile = Truncated
       THEN /\ suPc' = [suPc EXCEPT ![r] = "done"]
            /\ suResp' = [suResp EXCEPT ![r] = SignupResponse(500, FALSE)]
            /\ UNCHANGED suDf
       ELSE IF Registered(NormalizedRows(usersFile), NormalizedEmail(suBody[r].email))
       THEN /\ suPc' = [suPc EXCEPT ![r] = "done"]
            /\ suResp' = [suResp EXCEPT ![r] = SignupResponse(400, FALSE)]
            /\ UNCHANGED suDf
       ELSE /\ suPc' = [suPc EXCEPT ![r] = "open"]
            /\ suDf' = [suDf EXCEPT ![r] = Append(NormalizedRows(usersFile),
                                                  NewRow(suBody[r], r))]
            /\ UNCHANGED suResp
    /\ UNCHANGED <<usersFile, suBody, notSignup>>

\* df.to_csv(USERS_FILE, index=False) opening the file, which empties it
SaveOpen(r) ==
    /\ suPc[r] = "open"
    /\ usersFile' = Truncated
    /\ suPc' = [suPc EXCEPT ![r] = "write"]
    /\ UNCHANGED <<suBody, suDf, suResp, notSignup>>

\* to_csv writing df and closing the file, and signup answering with success
\* (two writers that have the file open at once each write from its start:
\* the file is taken to hold the rows of the one that writes last)
SaveWrite(r) ==
    /\ suPc[r] = "write"
    /\ usersFile' = suDf[r]
    /\ suPc' = [suPc EXCEPT ![r] = "done"]
    /\ suResp' = [suResp EXCEPT ![r] = SignupResponse(200, TRUE)]
    /\ UNCHANGED <<suBody, suDf, notSignup>>

NextSignup ==
    \E r \in SignupIds :
        \/ SignupStart(r)
        \/ SaveRead(r)
        \/ SaveOpen(r)
        \/ SaveWrite(r)

SpecSignup == InitSignup /\ [][NextSignup]_vars

\* every signup request has been answered
AllAnswered == \A r \in SignupIds : suPc[r] = "done"

\* the rows of the file whose normalized email is email
RowsOf(email) ==
    {i \in 1..Len(usersFile) : NormalizedEmail(usersFile[i].email) = email}

\* C30: after any interleaving of concurrent signups the user store has at
\* most one row per normalized (trimmed, lower-cased) email, and no created
\* row is lost: the row of every signup answered with success is in the file.
C30_SignupsKept ==
    AllAnswered =>
        /\ usersFile # Truncated
        /\ \A i \in 1..Len(usersFile) :
              Cardinality(RowsOf(NormalizedEmail(usersFile[i].email))) = 1
        /\ \A r \in SignupIds :
              (suResp[r].status = 200) =>
                  \E i \in 1..Len(usersFile) : usersFile[i] = NewRow(suBody[r], r)

=============================================================================
